---- MODULE Spec2Model ----
(***************************************************************************)
(* Model of the booking front end: the session store and authenticated     *)
(* request client (src/lib/api.ts, src/lib/auth-context.tsx), the slot     *)
(* status resolver of the dashboard (src/components/time-slot-grid.tsx,    *)
(* src/app/signup/page.tsx), the availability fetcher and the SWR cache    *)
(* (src/lib/hooks.ts), and the booking and cancellation flows              *)
(* (src/unnamed/part_000, src/components/booking-card.tsx) up to a remote  *)
(* authority that records the bookings.                                    *)
(*                                                                         *)
(* Every action is one task of the single-threaded event loop: the code    *)
(* that runs from the arrival of an event (a click, a network response)    *)
(* until control returns to the loop, continuations of already resolved    *)
(* promises included.                                                      *)
(***************************************************************************)
EXTENDS Integers, Sequences, FiniteSets, TLC

VARIABLES
    \* ---- session store and request client (src/lib/api.ts)
    accessToken,    \* module variable accessToken, NoToken for null
    refreshToken,   \* module variable refreshToken, NoToken for null
    localStorage,   \* the durable entries accessToken, refreshToken, user
    issued,         \* number of token pairs the identity provider has issued
    req,            \* the authFetch calls: position and what each has done
    redirected,     \* window.location.href was set to "/login"
    lastOp,         \* the last operation that wrote the session store
    \* ---- dashboard and slot grid (src/app/signup/page.tsx, time-slot-grid.tsx)
    zone,           \* the browser's time zone: the day its offset changes, and how
    now,            \* the wall clock, in hours since 00:00 UTC of day 0
    selectedDate,   \* the selected Date, an instant in hours like now
    userBookings,   \* the bookings of the ledger cache, in list order
    availabilityData,\* the availability entry of the cache: hour -> resource ids
    view,           \* what the last render computed, and from what
    \* ---- availability fetcher (src/lib/hooks.ts)
    apiResult,      \* the response the fetcher of useAvailability last reduced
    \* ---- pages, SWR cache and sync channel (src/app/signup/page.tsx,
    \*      src/app/my-bookings/page.tsx, src/lib/hooks.ts)
    route,          \* the page that is mounted: "dashboard" or "my-bookings"
    selectedType,   \* state selectedType of DashboardPage
    dateStr,        \* the local day of its selected date, as in the cache key
    visible,        \* document.visibilityState is "visible"
    availabilityCache, \* SWR: the availability key (type, day) holds a map
    bookingsData,   \* SWR: items.length of each user-bookings key, Null for no data
    resourcesData,  \* SWR: items.length of each resources key, Null for no data
    fetching,       \* SWR: the keys with a fetch in flight whose result will count
    es,             \* the EventSource of the SSE effect
    sseConnected,   \* state sseConnected
    pollTimer,      \* the interval of the polling effect is set
    prevBookingsCountRef, \* prevBookingsCountRef.current
    dialog,         \* BookingDialog: open, the type of its resource, error, isSubmitting
    cancelling,     \* the cancelBooking calls of BookingCard.handleCancel in flight
    last,           \* what the last step did: revalidations, tear-down, message
    \* ---- a booking from the grid to the remote authority and back
    dialogSlot,     \* state dialogResource and dialogHour of DashboardPage
    request,        \* the body of the createBooking call in flight
    cancelRequest,  \* the booking id of the cancelBooking call in flight
    server          \* the remote authority: the user's bookings, others' slots

authVars == <<accessToken, refreshToken, localStorage, issued, req, redirected, lastOp>>
gridVars == <<zone, now, selectedDate, userBookings, availabilityData, view>>
dashVars == <<apiResult, route, selectedType, dateStr, visible, availabilityCache,
              bookingsData, resourcesData, fetching, es, sseConnected, pollTimer,
              prevBookingsCountRef, dialog, cancelling, last,
              dialogSlot, request, cancelRequest, server>>
bookVars == <<dialogSlot, request, cancelRequest, server>>
vars == <<accessToken, refreshToken, localStorage, issued, req, redirected, lastOp,
          zone, now, selectedDate, userBookings, availabilityData, view,
          apiResult, route, selectedType, dateStr, visible, availabilityCache,
          bookingsData, resourcesData, fetching, es, sseConnected, pollTimer,
          prevBookingsCountRef, dialog, cancelling, last,
          dialogSlot, request, cancelRequest, server>>

-----------------------------------------------------------------------------
(***************************************************************************)
(* Bounds of the model.                                                    *)
(***************************************************************************)
\* token pairs the identity provider issues (logins and renewals) in one run
MaxIssued == 2
\* the last local day the date navigator is followed to
MaxDay == 6
\* hours the clock advances in one run
MaxTicks == 4
\* times the cancel action of a booking card is pressed before a call settles
MaxCancels == 2
\* bookings the user makes in one run
MaxBookings == 2

-----------------------------------------------------------------------------
(***************************************************************************)
(* Session store: src/lib/api.ts, Token Management.                        *)
(***************************************************************************)
\* null: an absent token, and what localStorage.getItem returns for no entry
NoToken == 0

LSKeys == {"accessToken", "refreshToken", "user"}

\* the session as the token functions see it
Session == [accessToken |-> accessToken, refreshToken |-> refreshToken,
            localStorage |-> localStorage]

\* localStorage.setItem throws (quota exceeded, storage disabled) for the key
\* failAt; "none" when every write succeeds
FailPoints == {"none", "accessToken", "refreshToken", "user"}

\* setTokens(access, refresh): the two variables first, then the two entries;
\* a throwing setItem leaves what was written before it
setTokens(s, access, refresh, failAt) ==
    LET mem == [s EXCEPT !.accessToken = access, !.refreshToken = refresh]
    IN  IF failAt = "accessToken"
        THEN [sess |-> mem, threw |-> TRUE]
        ELSE LET w1 == [mem EXCEPT !.localStorage["accessToken"] = access]
             IN  IF failAt = "refreshToken"
                 THEN [sess |-> w1, threw |-> TRUE]
                 ELSE [sess |-> [w1 EXCEPT !.localStorage["refreshToken"] = refresh],
                       threw |-> FALSE]

\* getAccessToken(): the variable when truthy, else loaded from localStorage
getAccessToken(s) ==
    IF s.accessToken # NoToken
    THEN [sess |-> s, value |-> s.accessToken]
    ELSE [sess |-> [s EXCEPT !.accessToken = s.localStorage["accessToken"]],
          value |-> s.localStorage["accessToken"]]

\* getRefreshToken(): the variable when truthy, else loaded from localStorage
getRefreshToken(s) ==
    IF s.refreshToken # NoToken
    THEN [sess |-> s, value |-> s.refreshToken]
    ELSE [sess |-> [s EXCEPT !.refreshToken = s.localStorage["refreshToken"]],
          value |-> s.localStorage["refreshToken"]]

\* a clearTokens that forgets the user entry
clearTokensKeepsUser(s) ==
    [s EXCEPT !.accessToken = NoToken, !.refreshToken = NoToken,
              !.localStorage["accessToken"] = NoToken,
              !.localStorage["refreshToken"] = NoToken]

\* clearTokens(): both variables null, the three entries removed
clearTokens(s) ==
    [accessToken |-> NoToken, refreshToken |-> NoToken,
     localStorage |-> [k \in LSKeys |-> NoToken]]

-----------------------------------------------------------------------------
(***************************************************************************)
(* HTTP helpers: src/lib/api.ts, handleResponse.                           *)
(***************************************************************************)
\* the statuses the remote authority answers with: success, authorization
\* failure, and another failure (a conflict)
Statuses == {200, 401, 409}

\* a body that parses to the structured error, one that parses to an object
\* without those fields, and one that does not parse
Bodies == {"problem", "partial", "unparseable"}

Responses(statuses) ==
    [status : statuses, body : Bodies, statusText : {"", "Reason"}]

\* response.json() of an error body that parses
ParsedBody(resp) ==
    IF resp.body = "problem"
    THEN [title |-> "Problem", status |-> resp.status, detail |-> "Detail"]
    ELSE IF resp.body = "nodetail"
    THEN [title |-> "Problem", status |-> resp.status, detail |-> ""]
    ELSE [message |-> "Other"]

\* response.ok
IsOk(resp) == resp.status >= 200 /\ resp.status <= 299

\* handleResponse: the parsed value, or the error it throws
handleResponse(resp) ==
    IF ~IsOk(resp)
    THEN [kind |-> "error",
          error |-> IF resp.body # "unparseable"
                    THEN ParsedBody(resp)
                    ELSE [title |-> "Error", status |-> resp.status,
                          detail |-> IF resp.statusText # "" THEN resp.statusText
                                     ELSE "An unexpected error occurred"]]
    ELSE [kind |-> "ok", error |-> [none |-> TRUE]]

\* the error authFetch throws when renewal failed
SessionExpired ==
    [title |-> "Session Expired", status |-> 401, detail |-> "Please log in again."]

-----------------------------------------------------------------------------
(***************************************************************************)
(* Authenticated request client: src/lib/api.ts, refreshAccessToken and    *)
(* authFetch.                                                              *)
(***************************************************************************)
\* the authFetch calls of the model: two sends, which may be in flight together
Reqs == {"s1", "s2"}

NoResult == [kind |-> "none", error |-> [none |-> TRUE]]

\* an authFetch call that has not started.  bearers: the Authorization bearer
\* of each send of the request, in order (NoToken: no header); statuses: the
\* status of each response to it; refreshCalls: POST /auth/refresh issued by
\* this call; hadStored: at its 401 a refresh token was in memory or in
\* localStorage; rt: the refresh token it sent; renewal: how its renewal went
\* ("missing": no token to renew with; "throws" also when storing the new pair
\* threw); renewed: the access token its renewal stored
IdleReq ==
    [pc |-> "idle", bearers |-> <<>>, statuses |-> <<>>, refreshCalls |-> 0,
     hadStored |-> FALSE, rt |-> NoToken, renewal |-> "none", renewed |-> NoToken,
     result |-> NoResult]

\* a refresh token is held, in memory or in localStorage
HasStoredRefreshToken ==
    refreshToken # NoToken \/ localStorage["refreshToken"] # NoToken

\* a refreshAccessToken that calls the endpoint without a refresh token
refreshBeginNoCheck(s) ==
    LET g == getRefreshToken(s)
    IN  [sess |-> g.sess, rt |-> g.value, call |-> TRUE]

\* refreshAccessToken up to its first await: reads the refresh token and
\* returns false without a call when there is none
refreshAccessTokenBegin(s) ==
    LET g == getRefreshToken(s)
    IN  [sess |-> g.sess, rt |-> g.value, call |-> g.value # NoToken]

\* how the renewal call ends: an OK response, a non-OK response, or a throw
\* (the network fails, or the body is not JSON)
RefreshOutcomes == {"ok", "notok", "throws"}

\* refreshAccessToken from the response on: data is the token pair of an OK
\* response; a throwing setTokens lands in the catch like any other throw
refreshAccessTokenEnd(s, outcome, data, failAt) ==
    IF outcome = "ok"
    THEN LET w == setTokens(s, data, data, failAt)
         IN  IF w.threw
             THEN [sess |-> clearTokens(w.sess), refreshed |-> FALSE]
             ELSE [sess |-> w.sess, refreshed |-> TRUE]
    ELSE [sess |-> clearTokens(s), refreshed |-> FALSE]

\* a retry that re-sends the headers it built before the renewal
retryBearerStale(s, old) == old

\* the bearer of the retry: headers["Authorization"] = Bearer getAccessToken()
retryBearer(s, old) == getAccessToken(s).value

\* authFetch, from the call to the first await: the request is sent with the
\* current access token as bearer
Start(r) ==
    /\ req[r].pc = "idle"
    /\ LET g == getAccessToken(Session)
       IN  /\ accessToken' = g.sess.accessToken
           /\ req' = [req EXCEPT ![r].pc = "sent", ![r].bearers = <<g.value>>]
           /\ lastOp' = IF g.sess # Session THEN "load" ELSE lastOp
    /\ UNCHANGED <<refreshToken, localStorage, issued, redirected>>
    /\ UNCHANGED gridVars
    /\ UNCHANGED dashVars

\* authFetch when the first response arrives: any status but 401 goes to
\* handleResponse; a 401 starts the renewal, and without a refresh token the
\* session is cleared and SessionExpired thrown in this same task
FirstResponse(r, resp) ==
    /\ req[r].pc = "sent"
    /\ IF resp.status # 401
       THEN /\ req' = [req EXCEPT ![r].pc = "done",
                                  ![r].statuses = <<resp.status>>,
                                  ![r].result = handleResponse(resp)]
            /\ UNCHANGED <<accessToken, refreshToken, localStorage, redirected, lastOp>>
       ELSE LET b == refreshAccessTokenBegin(Session)
            IN  IF b.call
                THEN /\ req' = [req EXCEPT ![r].pc = "refreshing",
                                           ![r].statuses = <<resp.status>>,
                                           ![r].hadStored = HasStoredRefreshToken,
                                           ![r].rt = b.rt,
                                           ![r].refreshCalls = @ + 1]
                     /\ accessToken' = b.sess.accessToken
                     /\ refreshToken' = b.sess.refreshToken
                     /\ localStorage' = b.sess.localStorage
                     /\ lastOp' = IF b.sess # Session THEN "load" ELSE lastOp
                     /\ UNCHANGED redirected
                ELSE LET c == clearTokens(b.sess)
                     IN  /\ req' = [req EXCEPT ![r].pc = "done",
                                               ![r].statuses = <<resp.status>>,
                                               ![r].hadStored = HasStoredRefreshToken,
                                               ![r].renewal = "missing",
                                               ![r].result = [kind |-> "error",
                                                              error |-> SessionExpired]]
                         /\ accessToken' = c.accessToken
                         /\ refreshToken' = c.refreshToken
                         /\ localStorage' = c.localStorage
                         /\ redirected' = TRUE
                         /\ lastOp' = "renewFail"
    /\ UNCHANGED issued
    /\ UNCHANGED gridVars
    /\ UNCHANGED dashVars

\* authFetch when the renewal call ends.  Renewed: the new pair is stored and
\* the request re-sent at once with the stored access token.  Not renewed: the
\* session is cleared, the page redirected and SessionExpired thrown
RefreshResponse(r, outcome, failAt) ==
    /\ req[r].pc = "refreshing"
    /\ outcome = "ok" => issued < MaxIssued
    /\ LET data == issued + 1
           e == refreshAccessTokenEnd(Session, outcome, data, failAt)
       IN  IF e.refreshed
           THEN /\ req' = [req EXCEPT ![r].pc = "resent",
                                      ![r].renewal = "ok",
                                      ![r].renewed = e.sess.accessToken,
                                      ![r].bearers =
                                          Append(@, retryBearer(e.sess, @[1]))]
                /\ accessToken' = e.sess.accessToken
                /\ refreshToken' = e.sess.refreshToken
                /\ localStorage' = e.sess.localStorage
                /\ lastOp' = "renewOk"
                /\ UNCHANGED redirected
           ELSE LET c == clearTokens(e.sess)
                IN  /\ req' = [req EXCEPT ![r].pc = "done",
                                          ![r].renewal = IF outcome = "ok" THEN "throws"
                                                         ELSE outcome,
                                          ![r].result = [kind |-> "error",
                                                         error |-> SessionExpired]]
                    /\ accessToken' = c.accessToken
                    /\ refreshToken' = c.refreshToken
                    /\ localStorage' = c.localStorage
                    /\ redirected' = TRUE
                    /\ lastOp' = "renewFail"
    /\ issued' = IF outcome = "ok" THEN issued + 1 ELSE issued
    /\ UNCHANGED gridVars
    /\ UNCHANGED dashVars

\* authFetch when the response to the retry arrives: handleResponse, whatever
\* the status
RetryResponse(r, resp) ==
    /\ req[r].pc = "resent"
    /\ req' = [req EXCEPT ![r].pc = "done",
                          ![r].statuses = Append(@, resp.status),
                          ![r].result = handleResponse(resp)]
    /\ UNCHANGED <<accessToken, refreshToken, localStorage, issued, redirected, lastOp>>
    /\ UNCHANGED gridVars
    /\ UNCHANGED dashVars

-----------------------------------------------------------------------------
(***************************************************************************)
(* Login and logout: src/lib/auth-context.tsx.                             *)
(***************************************************************************)
\* login, from the response of POST /auth/login on: setTokens, then the user
\* entry; a throwing setItem rejects the login where it stands
Login(failAt) ==
    /\ issued < MaxIssued
    /\ LET data == issued + 1
           w == setTokens(Session, data, data, failAt)
       IN  /\ accessToken' = w.sess.accessToken
           /\ refreshToken' = w.sess.refreshToken
           /\ localStorage' = IF w.threw \/ failAt = "user"
                              THEN w.sess.localStorage
                              ELSE [w.sess.localStorage EXCEPT !["user"] = data]
    /\ issued' = issued + 1
    /\ lastOp' = "login"
    /\ UNCHANGED <<req, redirected>>
    /\ UNCHANGED gridVars
    /\ UNCHANGED dashVars

\* logout: clearTokens()
Logout ==
    /\ LET c == clearTokens(Session)
       IN  /\ accessToken' = c.accessToken
           /\ refreshToken' = c.refreshToken
           /\ localStorage' = c.localStorage
    /\ lastOp' = "logout"
    /\ UNCHANGED <<issued, req, redirected>>
    /\ UNCHANGED gridVars
    /\ UNCHANGED dashVars

\* the page is loaded again: the module variables start as null, the calls
\* of the old page are gone, localStorage stays
Reload ==
    /\ accessToken' = NoToken
    /\ refreshToken' = NoToken
    /\ req' = [r \in Reqs |-> IdleReq]
    /\ redirected' = FALSE
    /\ lastOp' = "reload"
    /\ UNCHANGED <<localStorage, issued>>
    /\ UNCHANGED gridVars
    /\ UNCHANGED dashVars

-----------------------------------------------------------------------------
(***************************************************************************)
(* Time.  An instant (a Date) is a number of hours since 00:00 UTC of day  *)
(* 0.  A zone gives the local calendar: base is its UTC offset in hours,   *)
(* and on the local day changeDay the offset moves by shift (+1: clocks go *)
(* forward and that day has 23 hours, -1: back, 25 hours, 0: no change).   *)
(***************************************************************************)
HoursPerDay == 24

\* the local days the calendar of the model covers
Days == 0..MaxDay

\* the UTC offset in effect at local midnight of day d
UtcOffset(z, d) == z.base + (IF d > z.changeDay THEN z.shift ELSE 0)

\* new Date(y, m, d): the instant of local midnight of day d
MidnightOf(z, d) == HoursPerDay * d - UtcOffset(z, d)

\* the instant the offset changes: 02:00 local time of changeDay
ChangeInstant(z) == HoursPerDay * z.changeDay + 2 - z.base

\* the UTC offset in effect at the instant t
OffsetAt(z, t) == z.base + (IF t >= ChangeInstant(z) THEN z.shift ELSE 0)

\* getFullYear / getMonth / getDate: the local calendar day of an instant
LocalDay(z, t) == (t + OffsetAt(z, t)) \div HoursPerDay

\* Date.UTC(y, m, d, hour, 0, 0): the digits of a local day read as a UTC date
DateUTC(d, hour) == HoursPerDay * d + hour

\* addDays: setDate(getDate() + days) keeps the local time of day
addDays(z, date, days) ==
    MidnightOf(z, LocalDay(z, date) + days) + (date - MidnightOf(z, LocalDay(z, date)))

\* the horizon: dates up to this many days after today are bookable
HorizonDays == 3

\* isBookableDate(date), at the clock reading nowv: the difference of the two
\* local midnights, as a number of 24-hour days, is within 0..3
isBookableDate(z, nowv, date) ==
    LET today == MidnightOf(z, LocalDay(z, nowv))
        target == MidnightOf(z, LocalDay(z, date))
        diffHours == target - today
    IN  diffHours >= 0 /\ diffHours <= HorizonDays * HoursPerDay

-----------------------------------------------------------------------------
(***************************************************************************)
(* Slot status: src/components/time-slot-grid.tsx.                         *)
(***************************************************************************)
\* HOURS = Array.from({ length: 13 }, (_, i) => i + 7)
HOURS == {i + 7 : i \in 0..12}

\* the resources of the selected type, as the catalog lists them
Resources == {"r1", "r2"}

\* new Date(booking.startUtc): the timestamp "<day>T<hour>:00:00Z" as an instant
ParseIso(ts) == HoursPerDay * ts.day + ts.hour

\* availableSet: the keys `${rid}_${hourKey}` of the availability map
availableSet(map) ==
    {k \in (UNION {map[h] : h \in DOMAIN map}) \X DOMAIN map : k[1] \in map[k[2]]}

\* a past test that lets the slot ending now through
isPastStrict(slotEnd, nowv) == slotEnd < nowv

\* slotEnd <= now
isPast(slotEnd, nowv) == slotEnd <= nowv

\* an overlap test that counts touching intervals
overlapsClosed(slotStart, slotEnd, bStart, bEnd) == slotStart <= bEnd /\ slotEnd >= bStart

\* slotStart < bEnd && slotEnd > bStart
overlaps(slotStart, slotEnd, bStart, bEnd) == slotStart < bEnd /\ slotEnd > bStart

\* an ownership test that forgets the status
isOwnAnyStatus(booking, resourceId) == booking.resourceId = resourceId

\* booking.resourceId === resourceId && booking.status === "Active"
isOwn(booking, resourceId) ==
    booking.resourceId = resourceId /\ booking.status = "Active"

\* a lookup that ignores the hour
hasKeyAnyHour(set, resourceId, hour) == \E k \in set : k[1] = resourceId

\* availableSet.has(`${resourceId}_${hour}`)
hasKey(set, resourceId, hour) == <<resourceId, hour>> \in set

\* the for loop over userBookings: the indexes of the bookings that make the
\* slot the user's own
ownHits(resourceId, slotStart, slotEnd, bookings) ==
    {i \in 1..Len(bookings) :
        /\ isOwn(bookings[i], resourceId)
        /\ overlaps(slotStart, slotEnd,
                    ParseIso(bookings[i].startUtc), ParseIso(bookings[i].endUtc))}

FirstOf(S) == CHOOSE i \in S : \A j \in S : i <= j

\* a resolver that looks for own bookings before the horizon
getSlotStatusOwnFirst(z, nowv, resourceId, hour, date, bookings, set, isBookable) ==
    LET d == LocalDay(z, date)
        slotStart == DateUTC(d, hour)
        slotEnd == DateUTC(d, hour + 1)
        hits == ownHits(resourceId, slotStart, slotEnd, bookings)
    IN  IF isPast(slotEnd, nowv) THEN [status |-> "past", bookingId |-> "none"]
        ELSE IF hits # {}
        THEN [status |-> "yours", bookingId |-> bookings[FirstOf(hits)].id]
        ELSE IF ~isBookable THEN [status |-> "disabled", bookingId |-> "none"]
        ELSE IF hasKey(set, resourceId, hour)
        THEN [status |-> "available", bookingId |-> "none"]
        ELSE [status |-> "unavailable", bookingId |-> "none"]

\* getSlotStatus, at the clock reading nowv in the zone z
getSlotStatus(z, nowv, resourceId, hour, date, bookings, set, isBookable) ==
    LET d == LocalDay(z, date)
        slotStart == DateUTC(d, hour)
        slotEnd == DateUTC(d, hour + 1)
        hits == ownHits(resourceId, slotStart, slotEnd, bookings)
    IN  IF isPast(slotEnd, nowv) THEN [status |-> "past", bookingId |-> "none"]
        ELSE IF ~isBookable THEN [status |-> "disabled", bookingId |-> "none"]
        ELSE IF hits # {}
        THEN [status |-> "yours", bookingId |-> bookings[FirstOf(hits)].id]
        ELSE IF hasKey(set, resourceId, hour)
        THEN [status |-> "available", bookingId |-> "none"]
        ELSE [status |-> "unavailable", bookingId |-> "none"]

-----------------------------------------------------------------------------
(***************************************************************************)
(* Dashboard: src/app/signup/page.tsx (DashboardPage) and                  *)
(* src/components/date-navigator.tsx.                                      *)
(***************************************************************************)
\* the zones of the model: UTC; one whose clocks go forward on day 3 (a day
\* of 23 hours); one whose clocks go back on day 3 (25 hours); one far west,
\* whose local day is behind the UTC day at the start
Zones ==
    {[base |-> 0, changeDay |-> 3, shift |-> 0],
     [base |-> -5, changeDay |-> 3, shift |-> 1],
     [base |-> -4, changeDay |-> 3, shift |-> -1],
     [base |-> -10, changeDay |-> 3, shift |-> 0]}

\* the clock at the start: 09:00 UTC of day 2
StartNow == HoursPerDay * 2 + 9

Timestamp(d, h) == [day |-> d, hour |-> h]

\* bookings the remote authority may list for the user: b1 one slot of r1;
\* b2 cancelled, over the same slot and the next; b3 of the other resource;
\* b4 on day 6, beyond the horizon of every start; b5 over b1's slot and the next
Booking(id, resourceId, status, d, h1, h2) ==
    [id |-> id, resourceId |-> resourceId, status |-> status,
     startUtc |-> Timestamp(d, h1), endUtc |-> Timestamp(d, h2)]

b1 == Booking("b1", "r1", "Active", 2, 10, 11)
b2 == Booking("b2", "r1", "Cancelled", 2, 10, 12)
b3 == Booking("b3", "r2", "Active", 2, 11, 12)
b4 == Booking("b4", "r1", "Active", 6, 10, 11)
b5 == Booking("b5", "r1", "Active", 2, 10, 12)

\* the ledgers a fetch of the user's bookings may produce
Ledgers ==
    {<<>>, <<b1>>, <<b2>>, <<b3>>, <<b4>>,
     <<b2, b1>>, <<b1, b5>>, <<b5, b1>>, <<b3, b4>>}

EmptyMap == [h \in {} |-> {}]

\* the availability maps a fetch may produce
AvailabilityMaps ==
    {EmptyMap,
     (10 :> {"r1"}) @@ (11 :> {"r1", "r2"}),
     (9 :> {"r2"}) @@ (10 :> {"r1", "r2"}) @@ (19 :> {"r1"})}

NoData == [defined |-> FALSE, map |-> EmptyMap]

\* availabilityMap = availabilityData ?? new Map()
availabilityMap(data) == IF data.defined THEN data.map ELSE EmptyMap

\* one render of DashboardPage and TimeSlotGrid at the clock reading nowv:
\* bookable = isBookableDate(selectedDate), and getSlotStatus for every
\* resource and every hour of HOURS
Render(z, nowv, date, bookings, data) ==
    LET bookable == isBookableDate(z, nowv, date)
        set == availableSet(availabilityMap(data))
    IN  [now |-> nowv,
         bookable |-> bookable,
         grid |-> [c \in Resources \X HOURS |->
                      getSlotStatus(z, nowv, c[1], c[2], date, bookings, set, bookable)]]

\* the clock advances by an hour; nothing is rendered for that
Tick ==
    /\ now < StartNow + MaxTicks
    /\ now' = now + 1
    /\ UNCHANGED <<zone, selectedDate, userBookings, availabilityData, view>>
    /\ UNCHANGED authVars
    /\ UNCHANGED dashVars

\* setSelectedDate(date), and the render it causes: the availability entry
\* is keyed by the local day (dateStr), and the entry of another day has no
\* data until its fetch ends
SetSelectedDate(date) ==
    /\ LocalDay(zone, date) \in Days
    /\ selectedDate' = date
    /\ availabilityData' = IF LocalDay(zone, date) = LocalDay(zone, selectedDate)
                           THEN availabilityData
                           ELSE NoData
    /\ view' = Render(zone, now, date, userBookings, availabilityData')
    /\ UNCHANGED <<zone, now, userBookings>>
    /\ UNCHANGED authVars
    /\ UNCHANGED dashVars

\* today of DateNavigator: local midnight of the day of its render
NavigatorToday == MidnightOf(zone, LocalDay(zone, view.now))

\* the Today button
SelectToday == SetSelectedDate(NavigatorToday)

\* the previous-day button, disabled unless selectedDate > today
SelectPrev ==
    /\ selectedDate > NavigatorToday
    /\ SetSelectedDate(addDays(zone, selectedDate, -1))

\* the next-day button
SelectNext == SetSelectedDate(addDays(zone, selectedDate, 1))

\* a day of the mini picker: selectedDate - 2 .. selectedDate + 2, disabled
\* when isPast (day < today && !isToday)
PickDay(i) ==
    LET day == addDays(zone, addDays(zone, selectedDate, -2), i)
    IN  /\ ~(day < NavigatorToday
              /\ LocalDay(zone, day) # LocalDay(zone, NavigatorToday))
        /\ SetSelectedDate(day)

\* the ledger cache receives the user's bookings, and the page renders
LedgerLoaded(list) ==
    /\ userBookings' = list
    /\ view' = Render(zone, now, selectedDate, list, availabilityData)
    /\ UNCHANGED <<zone, now, selectedDate, availabilityData>>
    /\ UNCHANGED authVars
    /\ UNCHANGED dashVars

\* the availability cache receives the map of the selected date, and the
\* page renders
AvailabilityLoaded(map) ==
    /\ availabilityData' = [defined |-> TRUE, map |-> map]
    /\ view' = Render(zone, now, selectedDate, userBookings, availabilityData')
    /\ UNCHANGED <<zone, now, selectedDate, userBookings>>
    /\ UNCHANGED authVars
    /\ UNCHANGED dashVars

-----------------------------------------------------------------------------
(***************************************************************************)
(* Availability fetcher: src/lib/hooks.ts, useAvailability.  A text is the *)
(* sequence of its characters.                                             *)
(***************************************************************************)
Digits == {"0", "1", "2", "3", "4", "5", "6", "7", "8", "9"}

DigitValue(c) ==
    CASE c = "0" -> 0 [] c = "1" -> 1 [] c = "2" -> 2 [] c = "3" -> 3
      [] c = "4" -> 4 [] c = "5" -> 5 [] c = "6" -> 6 [] c = "7" -> 7
      [] c = "8" -> 8 [] c = "9" -> 9

\* the not-a-number parseHour returns for a text it cannot read
NaN == -1

\* /(\d{2}):\d{2}/ matches t at position i
MatchAt(t, i) ==
    /\ i + 4 <= Len(t)
    /\ t[i] \in Digits /\ t[i + 1] \in Digits
    /\ t[i + 2] = ":"
    /\ t[i + 3] \in Digits /\ t[i + 4] \in Digits

\* new Date(t) is a valid date, for a text the pattern does not match: the
\* date-only form YYYY-MM-DD, which is read as 00:00 UTC of that day
IsIsoDate(t) ==
    /\ Len(t) = 10
    /\ \A i \in 1..10 : IF i \in {5, 8} THEN t[i] = "-" ELSE t[i] \in Digits

\* parseHour(t): the two digits before the first "dd:dd" of the text, else
\* getUTCHours() of new Date(t), else NaN
parseHour(t) ==
    LET m == {i \in 1..Len(t) : MatchAt(t, i)}
    IN  IF m # {}
        THEN 10 * DigitValue(t[FirstOf(m)]) + DigitValue(t[FirstOf(m) + 1])
        ELSE IF IsIsoDate(t) THEN 0
        ELSE NaN

\* a loop that also takes the end hour
loopTestInclusive(h, endHour) == h <= endHour

\* h < endHour
loopTest(h, endHour) == h < endHour

\* map.get(String(h)) ?? new Set()
MapGet(map, h) == IF h \in DOMAIN map THEN map[h] ELSE {}

\* map.set(String(h), set)
MapSet(map, h, set) ==
    [k \in DOMAIN map \cup {h} |-> IF k = h THEN set ELSE map[k]]

\* for (let h = startHour; h < endHour; h++) { set.add(res.id) }
RECURSIVE addHours(_, _, _, _)
addHours(map, id, h, endHour) ==
    IF loopTest(h, endHour)
    THEN addHours(MapSet(map, h, MapGet(map, h) \cup {id}), id, h + 1, endHour)
    ELSE map

\* the body of the loop over res.timeSlots, for one slot
addSlot(map, id, ts) ==
    IF ts.status # "available" THEN map
    ELSE LET startHour == parseHour(ts.startTime)
             endHour == parseHour(ts.endTime)
         IN  IF startHour = NaN \/ endHour = NaN THEN map
             ELSE addHours(map, id, startHour, endHour)

\* x || []
OrEmpty(x) == IF x.defined THEN x.items ELSE <<>>

Listed(items) == [defined |-> TRUE, items |-> items]

Undefined == [defined |-> FALSE, items |-> <<>>]

\* for (const ts of res.timeSlots || [])
RECURSIVE addSlots(_, _, _, _)
addSlots(map, id, slots, i) ==
    IF i > Len(slots) THEN map
    ELSE addSlots(addSlot(map, id, slots[i]), id, slots, i + 1)

\* for (const res of apiResult.resources || [])
RECURSIVE addResources(_, _, _)
addResources(map, resources, i) ==
    IF i > Len(resources) THEN map
    ELSE addResources(addSlots(map, resources[i].id, OrEmpty(resources[i].timeSlots), 1),
                      resources, i + 1)

\* the fetcher of useAvailability, from the response on
fetcher(result) == addResources(EmptyMap, OrEmpty(result.resources), 1)

\* ---- the responses of GET /resources/availability in the model
\* "09:00"
Hhmm0900 ==
    <<"0", "9", ":", "0", "0">>
\* "10:00"
Hhmm1000 ==
    <<"1", "0", ":", "0", "0">>
\* "11:30"
Hhmm1130 ==
    <<"1", "1", ":", "3", "0">>
\* "00:00"
Hhmm0000 ==
    <<"0", "0", ":", "0", "0">>
\* "2025-06-02T10:00:00Z"
IsoZ1000 ==
    <<"2", "0", "2", "5", "-", "0", "6", "-", "0", "2", "T", "1", "0",
    ":", "0", "0", ":", "0", "0", "Z">>
\* "2025-06-02T12:00:00+02:00"
IsoOffset1200 ==
    <<"2", "0", "2", "5", "-", "0", "6", "-", "0", "2", "T", "1", "2",
    ":", "0", "0", ":", "0", "0", "+", "0", "2", ":", "0", "0">>
\* "2025-06-02"
IsoDateOnly ==
    <<"2", "0", "2", "5", "-", "0", "6", "-", "0", "2">>
\* "n/a"
NotATime ==
    <<"n", "/", "a">>

Boundaries ==
    {Hhmm0900, Hhmm1000, Hhmm1130, Hhmm0000, IsoZ1000, IsoOffset1200,
     IsoDateOnly, NotATime}

TimeSlot(status, startTime, endTime) ==
    [status |-> status, startTime |-> startTime, endTime |-> endTime]

\* every slot of the two statuses of the API, and of a status in another case
TimeSlots ==
    {TimeSlot(st, s, e) : st \in {"available", "booked", "Available"},
                          s \in Boundaries, e \in Boundaries}

\* the slots that responses of more than one slot are made of
CoreSlots ==
    {TimeSlot("available", Hhmm0900, Hhmm1000),
     TimeSlot("available", IsoZ1000, IsoOffset1200),
     TimeSlot("available", Hhmm1130, Hhmm1000),
     TimeSlot("booked", Hhmm1000, Hhmm1130),
     TimeSlot("available", NotATime, Hhmm1130),
     TimeSlot("available", Hhmm0900, Hhmm1130)}

ResourceAvailability(id, timeSlots) == [id |-> id, timeSlots |-> timeSlots]

ApiResult(resources) == [resources |-> resources]

NoApiResult == ApiResult(Undefined)

\* one resource with one slot; one resource with two slots; two resources
\* (or the same resource twice) with one slot each; a resource without
\* timeSlots; a response without resources
ApiResults ==
    {ApiResult(Listed(<<ResourceAvailability(r, Listed(<<ts>>))>>)) :
        r \in Resources, ts \in TimeSlots}
    \cup {ApiResult(Listed(<<ResourceAvailability("r1", Listed(<<t1, t2>>))>>)) :
        t1 \in CoreSlots, t2 \in CoreSlots}
    \cup {ApiResult(Listed(<<ResourceAvailability("r1", Listed(<<t1>>)),
                             ResourceAvailability(r, Listed(<<t2>>))>>)) :
        r \in Resources, t1 \in CoreSlots, t2 \in CoreSlots}
    \cup {ApiResult(Listed(<<ResourceAvailability("r1", Undefined)>>)),
          ApiResult(Listed(<<>>)),
          NoApiResult}

\* the fetch of the availability of the selected date ends: the fetcher
\* reduces the response, the cache entry takes the map and the page renders
AvailabilityFetched(result) ==
    /\ apiResult' = result
    /\ availabilityData' = [defined |-> TRUE, map |-> fetcher(result)]
    /\ view' = Render(zone, now, selectedDate, userBookings, availabilityData')
    /\ UNCHANGED <<zone, now, selectedDate, userBookings>>
    /\ UNCHANGED authVars
    /\ UNCHANGED <<route, selectedType, dateStr, visible, availabilityCache,
                   bookingsData, resourcesData, fetching, es, sseConnected,
                   pollTimer, prevBookingsCountRef, dialog, cancelling, last>>
    /\ UNCHANGED bookVars

-----------------------------------------------------------------------------
(***************************************************************************)
(* Pages, SWR cache and sync channel: src/app/signup/page.tsx              *)
(* (DashboardPage), src/app/my-bookings/page.tsx, src/lib/hooks.ts.        *)
(*                                                                         *)
(* SWR as the hooks use it: a cache entry per key; globalMutate(filter,    *)
(* undefined, {revalidate: true}) writes undefined to every matching key,  *)
(* drops the result of a fetch in flight for it, and fetches it again when *)
(* a mounted hook uses the key; the mutate a hook returns keeps its        *)
(* identity and revalidates the key the hook has at the call.              *)
(***************************************************************************)
\* two of the resource types
Types == {"Room", "Desk"}

\* no type: invalidateResources()
NoType == "none"

Routes == {"dashboard", "my-bookings"}

\* null and undefined
Null == -1

\* pageSize of useUserBookings: 100 on the dashboard, 50 on My Bookings
PageSizeOf(r) == IF r = "dashboard" THEN 100 ELSE 50

PageSizes == {PageSizeOf(r) : r \in Routes}

\* the cache keys of the hooks
AvailKey(type, day) == <<"availability", type, day>>
BookingsKey(pageSize) == <<"user-bookings", pageSize>>
ResourcesKey(type) == <<"resources", type>>

CacheKeys ==
    {AvailKey(t, d) : t \in Types, d \in Days}
    \cup {BookingsKey(ps) : ps \in PageSizes}
    \cup {ResourcesKey(t) : t \in Types}

\* the keys of the hooks of a page: useResources of every type and
\* useUserBookings on both, useAvailability on the dashboard
HookKeys(r, type, day) ==
    {ResourcesKey(t) : t \in Types}
    \cup {BookingsKey(PageSizeOf(r))}
    \cup (IF r = "dashboard" THEN {AvailKey(type, day)} ELSE {})

\* a filter that leaves the user's bookings alone
invalidateBookingsFilterSparesLedger(key) == key[1] = "available-resources"

\* the filter of invalidateBookings
invalidateBookingsFilter(key) ==
    key[1] = "user-bookings" \/ key[1] = "available-resources"

\* the filter of invalidateResources(type)
invalidateResourcesFilter(type, key) ==
    /\ key[1] = "resources"
    /\ (type = NoType \/ key[2] = type)

\* the keys invalidateBookings() and invalidateResources(type) write
\* undefined to
InvalidatedKeys(type) ==
    {k \in CacheKeys :
        invalidateBookingsFilter(k) \/ invalidateResourcesFilter(type, k)}

\* the cache after those two calls
ClearedResources(keys) ==
    [t \in Types |-> IF ResourcesKey(t) \in keys THEN Null ELSE resourcesData[t]]

ClearedBookings(keys) ==
    [ps \in PageSizes |-> IF BookingsKey(ps) \in keys THEN Null ELSE bookingsData[ps]]

ClearedAvailability(keys) ==
    [k \in Types \X Days |->
        IF AvailKey(k[1], k[2]) \in keys THEN FALSE ELSE availabilityCache[k]]

\* the fetches in flight after them: those of the keys are dropped, and a
\* key a mounted hook uses is fetched again
Refetching(keys, mounted) == (fetching \ keys) \cup (keys \cap mounted)

\* resources.length: resourcesData?.items || []
Length(rd, type) == IF rd[type] = Null THEN 0 ELSE rd[type]

\* today at local midnight, and the days the navigator is followed to: today,
\* and two and four days after it
Today == LocalDay(zone, now)

\* bookable = isBookableDate(selectedDate), for the selected date of local day
Bookable(day) == isBookableDate(zone, now, MidnightOf(zone, day))

\* the EventSource: none, or its state and the availability key that was
\* selected when it was created
NoStream == [state |-> "none", since |-> <<>>]

Live(stream) == stream.state \in {"connecting", "open"}

\* a bound mutate that keeps the key of the render that set the stream up
mutateKeyOfSetup(type, day, stream) ==
    IF stream.state = "none" THEN AvailKey(type, day) ELSE stream.since

\* the key mutateAvailability() revalidates: the one the hook has at the call
mutateKey(type, day, stream) == AvailKey(type, day)

Revalidation(type, day, stream, by) ==
    [key |-> mutateKey(type, day, stream), by |-> by]

\* the dependencies of the SSE effect changed: [bookable, resources.length,
\* mutateAvailability]
sseDepsChanged(wasB, wasN, wasC, isB, isN, isC) == wasB # isB \/ wasN # isN

\* the dependencies of the polling effect changed: [mutateAvailability,
\* bookable, resources.length, sseConnected]
pollDepsChanged(wasB, wasN, wasC, isB, isN, isC) == wasB # isB \/ wasN # isN \/ wasC # isC

\* a tick that does not look at the page
tickAlways(isVisible) == TRUE

\* tick: mutateAvailability() unless the document is not visible
tickRevalidates(isVisible) == isVisible

\* no error was caught
NoFailure == [error |-> [none |-> TRUE], text |-> ""]

NoStep ==
    [op |-> "none", revalidated |-> <<>>, closedStream |-> FALSE,
     clearedTimer |-> FALSE, ticked |-> FALSE, cleared |-> {}, signal |-> FALSE,
     message |-> NoFailure]

\* DashboardPage renders after a handler changed its state or a cache entry
\* it reads, and its effects run to rest.  t1, d1: selectedType and the day
\* of selectedDate; rd1, bd1: the cache entries; es1, isC: the EventSource and
\* sseConnected as the handler left them; f1: the fetches in flight; signal:
\* resources-refresh-signal changed.
\*   signal effect: mutateAvailability();
\*   SSE effect, when its dependencies changed: the cleanup closes es and
\*     sets sseConnected false, the body opens a new EventSource in scope;
\*   polling effect, when its dependencies changed (also by the cleanup's
\*     sseConnected): clearInterval, then in scope and not connected
\*     setInterval and tick();
\*   count effect: mutateAvailability() when the count differs from a
\*     non-null prevBookingsCountRef.current, which then takes the count.
DashboardCommit(op, t1, d1, rd1, bd1, es1, isC, f1, signal, cleared, message) ==
    LET wasB == Bookable(dateStr)
        wasN == Length(resourcesData, selectedType)
        isB == Bookable(d1)
        isN == Length(rd1, t1)
        scope1 == isB /\ isN > 0
        sseRuns == sseDepsChanged(wasB, wasN, sseConnected, isB, isN, isC)
        cEnd == IF sseRuns THEN FALSE ELSE isC
        esEnd == IF sseRuns
                 THEN IF scope1
                      THEN [state |-> "connecting", since |-> AvailKey(t1, d1)]
                      ELSE NoStream
                 ELSE es1
        pollRuns == pollDepsChanged(wasB, wasN, sseConnected, isB, isN, cEnd)
        ticked == pollRuns /\ scope1 /\ ~cEnd
        count1 == bd1[PageSizeOf("dashboard")]
        countFires == prevBookingsCountRef # Null /\ count1 # prevBookingsCountRef
        revalidated ==
            (IF signal THEN <<Revalidation(t1, d1, esEnd, "signal")>> ELSE <<>>)
            \o (IF ticked /\ tickRevalidates(visible)
                THEN <<Revalidation(t1, d1, esEnd, "tick")>> ELSE <<>>)
            \o (IF countFires THEN <<Revalidation(t1, d1, esEnd, "count")>> ELSE <<>>)
        keyChanged == AvailKey(t1, d1) # AvailKey(selectedType, dateStr)
    IN  /\ selectedType' = t1
        /\ dateStr' = d1
        /\ resourcesData' = rd1
        /\ bookingsData' = bd1
        /\ es' = esEnd
        /\ sseConnected' = cEnd
        /\ pollTimer' = IF pollRuns THEN ticked ELSE pollTimer
        /\ prevBookingsCountRef' = count1
        /\ fetching' = f1 \cup {revalidated[i].key : i \in 1..Len(revalidated)}
                          \cup (IF keyChanged THEN {AvailKey(t1, d1)} ELSE {})
        /\ last' = [op |-> op, revalidated |-> revalidated,
                    closedStream |-> sseRuns /\ Live(es1),
                    clearedTimer |-> pollRuns /\ pollTimer,
                    ticked |-> ticked, cleared |-> cleared, signal |-> signal,
                    message |-> message]

\* a page other than the dashboard renders: no effect of DashboardPage runs
PlainCommit(op, rd1, bd1, f1, signal, cleared, message) ==
    /\ resourcesData' = rd1
    /\ bookingsData' = bd1
    /\ fetching' = f1
    /\ last' = [NoStep EXCEPT !.op = op, !.cleared = cleared, !.signal = signal,
                              !.message = message]
    /\ UNCHANGED <<selectedType, dateStr, es, sseConnected, pollTimer,
                   prevBookingsCountRef>>

\* the commit of the page that is mounted
Commit(op, rd1, bd1, f1, signal, cleared, message) ==
    IF route = "dashboard"
    THEN DashboardCommit(op, selectedType, dateStr, rd1, bd1, es, sseConnected,
                         f1, signal, cleared, message)
    ELSE PlainCommit(op, rd1, bd1, f1, signal, cleared, message)

ClosedDialog == [open |-> FALSE, type |-> "Room", error |-> "", isSubmitting |-> FALSE]

\* DashboardPage mounts on a cache holding rd and bd: selectedType "Room",
\* selectedDate today, sseConnected false, prevBookingsCountRef null; every
\* hook fetches its key and every effect runs
MountDashboard(rd, bd, f0, isVisible) ==
    LET t1 == "Room"
        d1 == Today
        scope1 == Bookable(d1) /\ Length(rd, t1) > 0
        esEnd == IF scope1
                 THEN [state |-> "connecting", since |-> AvailKey(t1, d1)]
                 ELSE NoStream
        revalidated ==
            <<Revalidation(t1, d1, esEnd, "signal")>>
            \o (IF scope1 /\ tickRevalidates(isVisible)
                THEN <<Revalidation(t1, d1, esEnd, "tick")>> ELSE <<>>)
    IN  [selectedType |-> t1, dateStr |-> d1, es |-> esEnd, sseConnected |-> FALSE,
         pollTimer |-> scope1,
         prevBookingsCountRef |-> bd[PageSizeOf("dashboard")],
         fetching |-> f0 \cup HookKeys("dashboard", t1, d1),
         last |-> [NoStep EXCEPT !.op = "mount", !.revalidated = revalidated,
                                 !.ticked = scope1]]

\* nothing of the grid, of the fetcher or of the remote authority changes:
\* the frame of a handler in the specifications that follow the cache only
OtherUnchanged == UNCHANGED gridVars /\ UNCHANGED apiResult /\ UNCHANGED bookVars

\* a link of the shell: the mounted page unmounts (the cleanups of the SSE
\* and polling effects run) and the other mounts
Navigate(r) ==
    /\ r # route
    /\ ~dialog.open /\ ~dialog.isSubmitting
    /\ route' = r
    /\ dialog' = ClosedDialog
    /\ IF r = "dashboard"
       THEN LET m == MountDashboard(resourcesData, bookingsData, fetching, visible)
            IN  /\ selectedType' = m.selectedType
                /\ dateStr' = m.dateStr
                /\ es' = m.es
                /\ sseConnected' = m.sseConnected
                /\ pollTimer' = m.pollTimer
                /\ prevBookingsCountRef' = m.prevBookingsCountRef
                /\ fetching' = m.fetching
                /\ last' = m.last
       ELSE /\ selectedType' = "Room"
            /\ dateStr' = Today
            /\ es' = NoStream
            /\ sseConnected' = FALSE
            /\ pollTimer' = FALSE
            /\ prevBookingsCountRef' = Null
            /\ fetching' = fetching \cup HookKeys(r, selectedType, dateStr)
            /\ last' = [NoStep EXCEPT !.op = "unmount",
                                      !.closedStream = Live(es),
                                      !.clearedTimer = pollTimer]
    /\ UNCHANGED <<visible, availabilityCache, bookingsData, resourcesData, cancelling>>
    /\ UNCHANGED authVars

\* ResourceTypeTabs onChange = setSelectedType
SetSelectedType(type) ==
    /\ route = "dashboard"
    /\ ~dialog.open
    /\ type # selectedType
    /\ DashboardCommit("setSelectedType", type, dateStr, resourcesData, bookingsData,
                       es, sseConnected, fetching, FALSE, {}, NoFailure)
    /\ UNCHANGED <<route, visible, availabilityCache, dialog, cancelling>>
    /\ UNCHANGED authVars
    /\ OtherUnchanged

\* DateNavigator onDateChange = setSelectedDate: the Today button, and the
\* days two before and two after the selected one in the mini picker, which
\* disables the days before today
OnDateChange(day) ==
    /\ route = "dashboard"
    /\ ~dialog.open
    /\ day \in Days
    /\ day # dateStr
    /\ day \in {Today, dateStr - 2, dateStr + 2}
    /\ day >= Today
    /\ DashboardCommit("setSelectedDate", selectedType, day, resourcesData, bookingsData,
                       es, sseConnected, fetching, FALSE, {}, NoFailure)
    /\ UNCHANGED <<route, visible, availabilityCache, dialog, cancelling>>
    /\ UNCHANGED authVars
    /\ OtherUnchanged

\* the fetch of a resources key ends with n items
ResourcesLoaded(type, n) ==
    /\ ResourcesKey(type) \in fetching
    /\ Commit("resourcesLoaded", [resourcesData EXCEPT ![type] = n], bookingsData,
              fetching \ {ResourcesKey(type)}, FALSE, {}, NoFailure)
    /\ UNCHANGED <<route, visible, availabilityCache, dialog, cancelling>>
    /\ UNCHANGED authVars
    /\ OtherUnchanged

\* the fetch of a user-bookings key ends with n items
BookingsLoaded(pageSize, n) ==
    /\ BookingsKey(pageSize) \in fetching
    /\ Commit("bookingsLoaded", resourcesData, [bookingsData EXCEPT ![pageSize] = n],
              fetching \ {BookingsKey(pageSize)}, FALSE, {}, NoFailure)
    /\ UNCHANGED <<route, visible, availabilityCache, dialog, cancelling>>
    /\ UNCHANGED authVars

\* the fetch of an availability key ends: the entry takes the reduced map
AvailabilityRevalidated(type, day) ==
    /\ AvailKey(type, day) \in fetching
    /\ availabilityCache' = [availabilityCache EXCEPT ![<<type, day>>] = TRUE]
    /\ fetching' = fetching \ {AvailKey(type, day)}
    /\ last' = [NoStep EXCEPT !.op = "availabilityLoaded"]
    /\ UNCHANGED <<route, selectedType, dateStr, visible, bookingsData, resourcesData,
                   es, sseConnected, pollTimer, prevBookingsCountRef, dialog,
                   cancelling>>
    /\ UNCHANGED authVars

\* es.onopen: setSseConnected(true)
StreamOpen ==
    /\ route = "dashboard"
    /\ es.state = "connecting"
    /\ DashboardCommit("onopen", selectedType, dateStr, resourcesData, bookingsData,
                       [es EXCEPT !.state = "open"], TRUE, fetching, FALSE, {}, NoFailure)
    /\ UNCHANGED <<route, visible, availabilityCache, dialog, cancelling>>
    /\ UNCHANGED authVars
    /\ OtherUnchanged

\* es.onerror, while connecting or open: setSseConnected(false), es.close()
StreamError ==
    /\ route = "dashboard"
    /\ Live(es)
    /\ DashboardCommit("onerror", selectedType, dateStr, resourcesData, bookingsData,
                       [es EXCEPT !.state = "closed"], FALSE, fetching, FALSE, {}, NoFailure)
    /\ UNCHANGED <<route, visible, availabilityCache, dialog, cancelling>>
    /\ UNCHANGED authVars
    /\ OtherUnchanged

\* es.onmessage: mutateAvailability()
StreamMessage ==
    /\ route = "dashboard"
    /\ es.state = "open"
    /\ LET r == Revalidation(selectedType, dateStr, es, "message")
       IN  /\ fetching' = fetching \cup {r.key}
           /\ last' = [NoStep EXCEPT !.op = "onmessage", !.revalidated = <<r>>]
    /\ UNCHANGED <<route, selectedType, dateStr, visible, availabilityCache,
                   bookingsData, resourcesData, es, sseConnected, pollTimer,
                   prevBookingsCountRef, dialog, cancelling>>
    /\ UNCHANGED authVars
    /\ OtherUnchanged

\* the interval of the polling effect fires: tick()
PollTick ==
    /\ pollTimer
    /\ LET r == Revalidation(selectedType, dateStr, es, "tick")
           rs == IF tickRevalidates(visible) THEN <<r>> ELSE <<>>
       IN  /\ fetching' = fetching \cup {rs[i].key : i \in 1..Len(rs)}
           /\ last' = [NoStep EXCEPT !.op = "interval", !.revalidated = rs]
    /\ UNCHANGED <<route, selectedType, dateStr, visible, availabilityCache,
                   bookingsData, resourcesData, es, sseConnected, pollTimer,
                   prevBookingsCountRef, dialog, cancelling>>
    /\ UNCHANGED authVars
    /\ OtherUnchanged

\* the tab is hidden or shown; no code listens
VisibilityChange ==
    /\ visible' = ~visible
    /\ last' = [NoStep EXCEPT !.op = "visibilitychange"]
    /\ UNCHANGED <<route, selectedType, dateStr, availabilityCache, bookingsData,
                   resourcesData, fetching, es, sseConnected, pollTimer,
                   prevBookingsCountRef, dialog, cancelling>>
    /\ UNCHANGED authVars
    /\ OtherUnchanged

\* ---- booking dialog (src/unnamed/part_000) and booking card
\*      (src/components/booking-card.tsx)

\* isApiError(error)
isApiError(error) == {"title", "status", "detail"} \subseteq DOMAIN error

\* a message that prefers the title
errorTextTitleFirst(error, generic) ==
    IF isApiError(error)
    THEN IF error.title # "" THEN error.title ELSE error.detail
    ELSE generic

\* the message of the catch block: err.detail || err.title for an ApiError,
\* else the generic message
errorText(error, generic) ==
    IF isApiError(error)
    THEN IF error.detail # "" THEN error.detail ELSE error.title
    ELSE generic

\* the error a catch block caught and the text it shows
Surfaced(error, generic) == [error |-> error, text |-> errorText(error, generic)]

CreateFailed == "Failed to create booking. Please try again."
CancelFailed == "Failed to cancel booking."

\* fetch rejects: a TypeError
NetworkError == [message |-> "Failed to fetch"]

\* what a failed createBooking or cancelBooking rejects with: what
\* handleResponse throws for a conflict, SessionExpired, a network error
FlowErrors ==
    {handleResponse([status |-> 409, body |-> b, statusText |-> ""]).error :
        b \in {"problem", "nodetail", "partial"}}
    \cup {SessionExpired, NetworkError}

Success == [ok |-> TRUE]

Outcomes == {Success} \cup {[ok |-> FALSE, error |-> e] : e \in FlowErrors}

\* authFetch, when it throws SessionExpired, has cleared the session and set
\* window.location.href
SessionAfter(outcome) ==
    IF ~outcome.ok /\ outcome.error = SessionExpired
    THEN /\ accessToken' = clearTokens(Session).accessToken
         /\ refreshToken' = clearTokens(Session).refreshToken
         /\ localStorage' = clearTokens(Session).localStorage
         /\ redirected' = TRUE
         /\ lastOp' = "renewFail"
         /\ UNCHANGED <<issued, req>>
    ELSE UNCHANGED authVars

\* handleSlotClick of a clickable slot: a bookable date, a listed resource,
\* an availability map
handleSlotClick ==
    /\ route = "dashboard"
    /\ ~dialog.open /\ ~dialog.isSubmitting
    /\ Bookable(dateStr)
    /\ Length(resourcesData, selectedType) > 0
    /\ availabilityCache[<<selectedType, dateStr>>]
    /\ dialog' = [open |-> TRUE, type |-> selectedType, error |-> "",
                  isSubmitting |-> FALSE]
    /\ last' = [NoStep EXCEPT !.op = "handleSlotClick"]
    /\ UNCHANGED <<route, selectedType, dateStr, visible, availabilityCache,
                   bookingsData, resourcesData, fetching, es, sseConnected,
                   pollTimer, prevBookingsCountRef, cancelling>>
    /\ UNCHANGED authVars

\* handleOpenChange(false)
handleOpenChange ==
    /\ dialog.open
    /\ dialog' = [dialog EXCEPT !.open = FALSE, !.error = ""]
    /\ last' = [NoStep EXCEPT !.op = "handleOpenChange"]
    /\ UNCHANGED <<route, selectedType, dateStr, visible, availabilityCache,
                   bookingsData, resourcesData, fetching, es, sseConnected,
                   pollTimer, prevBookingsCountRef, cancelling>>
    /\ UNCHANGED authVars

\* handleConfirm, up to the await of createBooking
handleConfirm ==
    /\ dialog.open /\ ~dialog.isSubmitting
    /\ dialog' = [dialog EXCEPT !.error = "", !.isSubmitting = TRUE]
    /\ last' = [NoStep EXCEPT !.op = "handleConfirm"]
    /\ UNCHANGED <<route, selectedType, dateStr, visible, availabilityCache,
                   bookingsData, resourcesData, fetching, es, sseConnected,
                   pollTimer, prevBookingsCountRef, cancelling>>
    /\ UNCHANGED authVars

\* handleConfirm, from the await on.  Fulfilled: invalidateBookings(),
\* invalidateResources(resource.type), which also sets
\* resources-refresh-signal, and onOpenChange(false).  Rejected: setError.
CreateBookingSettled(outcome) ==
    /\ dialog.isSubmitting
    /\ IF outcome.ok
       THEN LET keys == InvalidatedKeys(dialog.type)
            IN  /\ Commit("createBooking", ClearedResources(keys), ClearedBookings(keys),
                          Refetching(keys, HookKeys(route, selectedType, dateStr)),
                          TRUE, keys, NoFailure)
                /\ availabilityCache' = ClearedAvailability(keys)
                /\ dialog' = [dialog EXCEPT !.open = FALSE, !.isSubmitting = FALSE]
       ELSE /\ Commit("createBookingFailed", resourcesData, bookingsData, fetching,
                      FALSE, {}, Surfaced(outcome.error, CreateFailed))
            /\ availabilityCache' = availabilityCache
            /\ dialog' = [dialog EXCEPT !.error = errorText(outcome.error, CreateFailed),
                                        !.isSubmitting = FALSE]
    /\ SessionAfter(outcome)
    /\ UNCHANGED <<route, visible, cancelling>>

\* handleCancel of the card of a listed booking, up to the await
handleCancel ==
    /\ route = "my-bookings"
    /\ bookingsData[PageSizeOf(route)] # Null
    /\ bookingsData[PageSizeOf(route)] > 0
    /\ cancelling < MaxCancels
    /\ cancelling' = cancelling + 1
    /\ last' = [NoStep EXCEPT !.op = "handleCancel"]
    /\ UNCHANGED <<route, selectedType, dateStr, visible, availabilityCache,
                   bookingsData, resourcesData, fetching, es, sseConnected,
                   pollTimer, prevBookingsCountRef, dialog>>
    /\ UNCHANGED authVars

\* handleCancel, from the await on.  Fulfilled: invalidateBookings(),
\* invalidateResources().  Rejected: toast.error.
CancelBookingSettled(outcome) ==
    /\ cancelling > 0
    /\ cancelling' = cancelling - 1
    /\ IF outcome.ok
       THEN LET keys == InvalidatedKeys(NoType)
            IN  /\ Commit("cancelBooking", ClearedResources(keys), ClearedBookings(keys),
                          Refetching(keys, HookKeys(route, selectedType, dateStr)),
                          TRUE, keys, NoFailure)
                /\ availabilityCache' = ClearedAvailability(keys)
       ELSE /\ Commit("cancelBookingFailed", resourcesData, bookingsData, fetching,
                      FALSE, {}, Surfaced(outcome.error, CancelFailed))
            /\ availabilityCache' = availabilityCache
    /\ SessionAfter(outcome)
    /\ UNCHANGED <<route, visible, dialog>>

-----------------------------------------------------------------------------
(***************************************************************************)
(* Specifications.                                                         *)
(***************************************************************************)
\* the session store of a fresh page: no token in memory, nothing stored
AuthStart ==
    /\ accessToken = NoToken
    /\ refreshToken = NoToken
    /\ localStorage = [k \in LSKeys |-> NoToken]
    /\ issued = 0
    /\ req = [r \in Reqs |-> IdleReq]
    /\ redirected = FALSE
    /\ lastOp = "init"

\* the dashboard at its first render in zone z: selectedDate is today at
\* local midnight, no bookings and no availability loaded
GridStart(z) ==
    /\ zone = z
    /\ now = StartNow
    /\ selectedDate = MidnightOf(z, LocalDay(z, StartNow))
    /\ userBookings = <<>>
    /\ availabilityData = NoData
    /\ view = Render(z, StartNow, MidnightOf(z, LocalDay(z, StartNow)), <<>>, NoData)

\* no slot was clicked yet; no call is in flight; a remote authority
\* without bookings
NoSlot == [resource |-> "none", hour |-> Null]
NoRequest == [none |-> TRUE]
NoBooking == "none"
EmptyServer == [mine |-> <<>>, others |-> {}]

\* the first mount of the dashboard, on an empty cache, the tab visible
DashStart ==
    LET rd == [t \in Types |-> Null]
        bd == [ps \in PageSizes |-> Null]
        m == MountDashboard(rd, bd, {}, TRUE)
    IN  /\ apiResult = NoApiResult
        /\ route = "dashboard"
        /\ selectedType = m.selectedType
        /\ dateStr = m.dateStr
        /\ visible = TRUE
        /\ availabilityCache = [k \in Types \X Days |-> FALSE]
        /\ bookingsData = bd
        /\ resourcesData = rd
        /\ fetching = m.fetching
        /\ es = m.es
        /\ sseConnected = m.sseConnected
        /\ pollTimer = m.pollTimer
        /\ prevBookingsCountRef = m.prevBookingsCountRef
        /\ dialog = ClosedDialog
        /\ cancelling = 0
        /\ last = m.last
        /\ dialogSlot = NoSlot
        /\ request = NoRequest
        /\ cancelRequest = NoBooking
        /\ server = EmptyServer

UTC == [base |-> 0, changeDay |-> 3, shift |-> 0]

InitAuth == AuthStart /\ GridStart(UTC) /\ DashStart

NextAuth ==
    \/ \E r \in Reqs : Start(r)
    \/ \E r \in Reqs, resp \in Responses(Statuses) : FirstResponse(r, resp)
    \/ \E r \in Reqs, outcome \in RefreshOutcomes,
          failAt \in {"none", "accessToken", "refreshToken"} :
            RefreshResponse(r, outcome, failAt)
    \/ \E r \in Reqs, resp \in Responses(Statuses) : RetryResponse(r, resp)
    \/ \E failAt \in FailPoints : Login(failAt)
    \/ Logout
    \/ Reload

SpecAuth == InitAuth /\ [][NextAuth]_vars

InitGrid == AuthStart /\ (\E z \in Zones : GridStart(z)) /\ DashStart

NextGrid ==
    \/ Tick
    \/ SelectToday
    \/ SelectPrev
    \/ SelectNext
    \/ \E i \in 0..4 : PickDay(i)
    \/ \E list \in Ledgers : LedgerLoaded(list)
    \/ \E map \in AvailabilityMaps : AvailabilityLoaded(map)

SpecGrid == InitGrid /\ [][NextGrid]_vars

\* the dashboard of the zone UTC while availability responses arrive
InitFetch == AuthStart /\ GridStart(UTC) /\ DashStart

NextFetch == \E result \in ApiResults : AvailabilityFetched(result)

SpecFetch == InitFetch /\ [][NextFetch]_vars

\* the pages while the user navigates, books and cancels and the fetches
\* end; the page is left once authFetch has redirected
InitFlow == AuthStart /\ GridStart(UTC) /\ DashStart

\* the document is still the application's: authFetch has not set
\* window.location.href
Present == ~redirected

\* no fetch is in flight
Settled == Present /\ fetching = {}

\* the user acts on a settled page, stays on bookable dates and leaves the
\* bookings page once its cancellations have settled
NextFlow ==
    \/ Settled /\ cancelling = 0 /\ \E r \in Routes : Navigate(r) /\ OtherUnchanged
    \/ Settled /\ \E t \in Types : SetSelectedType(t)
    \/ Settled /\ \E d \in Days : Bookable(d) /\ OnDateChange(d)
    \/ Present /\ \E t \in Types, n \in {2} : ResourcesLoaded(t, n)
    \/ Present /\ \E ps \in PageSizes, n \in {1, 2} : BookingsLoaded(ps, n) /\ OtherUnchanged
    \/ Present /\ \E t \in Types, d \in Days : AvailabilityRevalidated(t, d) /\ OtherUnchanged
    \/ Settled /\ handleSlotClick /\ OtherUnchanged
    \/ Settled /\ handleOpenChange /\ OtherUnchanged
    \/ Settled /\ handleConfirm /\ OtherUnchanged
    \/ Present /\ \E o \in Outcomes : CreateBookingSettled(o) /\ OtherUnchanged
    \/ Settled /\ handleCancel /\ OtherUnchanged
    \/ Present /\ \E o \in Outcomes : CancelBookingSettled(o) /\ OtherUnchanged

SpecFlow == InitFlow /\ [][NextFlow]_vars

\* the dashboard while the stream opens, fails and notifies, the interval
\* fires, the tab is hidden and shown, and the user changes type and date
InitSync == AuthStart /\ GridStart(UTC) /\ DashStart

\* no fetch of an availability key is in flight
Quiet == \A k \in fetching : k[1] # "availability"

\* the availability fetch a revalidation starts ends before the next event
NextSync ==
    \/ \E t \in Types, d \in Days : AvailabilityRevalidated(t, d) /\ OtherUnchanged
    \/ Quiet /\ \E r \in Routes : Navigate(r) /\ OtherUnchanged
    \/ Quiet /\ \E t \in Types : SetSelectedType(t)
    \/ Quiet /\ \E d \in Days : OnDateChange(d)
    \/ Quiet /\ \E t \in Types, n \in {0, 1} : ResourcesLoaded(t, n)
    \/ Quiet /\ StreamOpen
    \/ Quiet /\ StreamError
    \/ Quiet /\ StreamMessage
    \/ Quiet /\ PollTick
    \/ Quiet /\ VisibilityChange

SpecSync == InitSync /\ [][NextSync]_vars

\* the dashboard on today's date, the tab visible, while the resource lists
\* are fetched again and list one more or one less, and the stream opens,
\* fails and notifies
InitCatalog == AuthStart /\ GridStart(UTC) /\ DashStart

NextCatalog ==
    \/ \E t \in Types, d \in Days : AvailabilityRevalidated(t, d) /\ OtherUnchanged
    \/ Quiet /\ \E r \in Routes : Navigate(r) /\ OtherUnchanged
    \/ Quiet /\ \E t \in Types : SetSelectedType(t)
    \/ Quiet /\ \E t \in Types, n \in {0, 1, 2} : ResourcesLoaded(t, n)
    \/ Quiet /\ StreamOpen
    \/ Quiet /\ StreamError
    \/ Quiet /\ StreamMessage

SpecCatalog == InitCatalog /\ [][NextCatalog]_vars

-----------------------------------------------------------------------------
(***************************************************************************)
(* A booking from the grid to the remote authority and back:               *)
(* src/components/time-slot-grid.tsx (the cells), src/app/signup/page.tsx  *)
(* (handleSlotClick), src/unnamed/part_000 (BookingDialog).                *)
(***************************************************************************)
\* the variables of the pages and of the cache
pageVars == <<route, selectedType, dateStr, visible, availabilityCache,
              bookingsData, resourcesData, fetching, es, sseConnected, pollTimer,
              prevBookingsCountRef, dialog, cancelling, last>>

\* a timestamp of the instant at which the local clock of the date reads
\* the hour
toUtcIsoOfInstant(z, date, hour) ==
    LET t == MidnightOf(z, LocalDay(z, date)) + hour
    IN  Timestamp(t \div HoursPerDay, t % HoursPerDay)

\* toUtcIso(date, hour): the year, month and day the local calendar shows
\* for the date, then the hour, then ":00:00Z"
toUtcIso(z, date, hour) == Timestamp(LocalDay(z, date), hour)

\* the body handleConfirm passes to createBooking for the slot of the dialog
createBookingBody(z, date, slot) ==
    [resourceId |-> slot.resource,
     startUtc |-> toUtcIso(z, date, slot.hour),
     endUtc |-> toUtcIso(z, date, slot.hour + 1)]

\* the button of the cell (r, hour) is clicked: onSlotClick is called when
\* the last render resolved the slot as available (isLoading is false once
\* the availability entry holds a map), and handleSlotClick stores the slot
slotClick(r, hour) ==
    /\ view.grid[<<r, hour>>].status = "available"
    /\ dialogSlot' = [resource |-> r, hour |-> hour]

\* the click on the dashboard of the grid model: the dialog opens
GridSlotClick(r, hour) ==
    /\ ~dialog.open /\ ~dialog.isSubmitting
    /\ slotClick(r, hour)
    /\ dialog' = [open |-> TRUE, type |-> selectedType, error |-> "",
                  isSubmitting |-> FALSE]
    /\ last' = [NoStep EXCEPT !.op = "handleSlotClick"]
    /\ UNCHANGED <<route, selectedType, dateStr, visible, availabilityCache,
                   bookingsData, resourcesData, fetching, es, sseConnected,
                   pollTimer, prevBookingsCountRef, cancelling>>
    /\ UNCHANGED <<request, cancelRequest, server>>
    /\ UNCHANGED <<gridVars, apiResult>>
    /\ UNCHANGED authVars

\* handleConfirm with the body it submits
SubmitBooking ==
    /\ handleConfirm
    /\ request' = createBookingBody(zone, selectedDate, dialogSlot)
    /\ UNCHANGED <<dialogSlot, cancelRequest, server>>

\* no dialog is over the page
Unobstructed == ~dialog.open /\ ~dialog.isSubmitting

\* the grid in every zone while the user changes the date, availability
\* maps arrive, the clock advances, and the user clicks a slot and confirms
InitRound == AuthStart /\ (\E z \in Zones : GridStart(z)) /\ DashStart

NextRound ==
    \/ Tick
    \/ Unobstructed /\ SelectToday
    \/ Unobstructed /\ SelectPrev
    \/ Unobstructed /\ SelectNext
    \/ \E map \in AvailabilityMaps : AvailabilityLoaded(map)
    \/ \E r \in Resources, h \in HOURS : GridSlotClick(r, h)
    \/ ~dialog.isSubmitting /\ handleOpenChange /\ OtherUnchanged
    \/ SubmitBooking /\ UNCHANGED <<gridVars, apiResult>>

SpecRound == InitRound /\ [][NextRound]_vars

\* ---- the remote authority and the cache entries the grid reads

\* the booking the remote authority records for a body it accepts
Accepted(body, id) ==
    [id |-> id, resourceId |-> body.resourceId, status |-> "Active",
     startUtc |-> body.startUtc, endUtc |-> body.endUtc]

\* the ids the authority gives to the bookings it records
NewIds == <<"n1", "n2", "n3", "n4">>

\* the Active bookings the authority holds, of the user and of others
ActiveAt(srv) ==
    {srv.mine[i] : i \in {j \in 1..Len(srv.mine) : srv.mine[j].status = "Active"}}
    \cup srv.others

\* no Active booking of the resource overlaps the interval
FreeBetween(srv, r, start, end) ==
    \A b \in ActiveAt(srv) :
        ~(b.resourceId = r /\ overlaps(start, end, ParseIso(b.startUtc), ParseIso(b.endUtc)))

Free(srv, r, day, hour) ==
    FreeBetween(srv, r, DateUTC(day, hour), DateUTC(day, hour + 1))

\* the availability map of a day as the fetcher returns it from the
\* authority's answer: for every hour with a free resource, the free ones
serverAvailability(srv, day) ==
    LET free(h) == {r \in Resources : Free(srv, r, day, h)}
    IN  [h \in {k \in HOURS : free(k) # {}} |-> free(h)]

\* userBookings = bookingsData?.items || [], availabilityData of the key of
\* the render, and the render of the grid when the dashboard is mounted
GridShows(list, data) ==
    /\ userBookings' = list
    /\ availabilityData' = data
    /\ view' = IF route' = "dashboard"
               THEN Render(zone, now, selectedDate, list, data)
               ELSE view
    /\ UNCHANGED <<zone, now, selectedDate, apiResult>>

\* what the entries hold after a step that fetched nothing
KeptLedger ==
    IF bookingsData'[PageSizeOf("dashboard")] = Null THEN <<>> ELSE userBookings

KeptMap ==
    IF availabilityCache'[<<selectedType', dateStr'>>] THEN availabilityData ELSE NoData

\* the fetch of a user-bookings key ends with the user's bookings
LedgerFetched(pageSize) ==
    /\ BookingsLoaded(pageSize, Len(server.mine))
    /\ GridShows(IF pageSize = PageSizeOf("dashboard") THEN server.mine
                 ELSE userBookings,
                 availabilityData)
    /\ UNCHANGED bookVars

\* the fetch of an availability key ends with the map of its day
AvailabilityAnswered(type, day) ==
    /\ AvailabilityRevalidated(type, day)
    /\ GridShows(userBookings,
                 IF <<type, day>> = <<selectedType, dateStr>>
                 THEN [defined |-> TRUE, map |-> serverAvailability(server, day)]
                 ELSE availabilityData)
    /\ UNCHANGED bookVars

\* a link of the shell; the dashboard renders from the cache when it mounts
NavigateShown(r) ==
    /\ Navigate(r)
    /\ GridShows(KeptLedger, KeptMap)
    /\ UNCHANGED bookVars

\* the click on a cell of the dashboard
BookSlotClick(r, hour) ==
    /\ handleSlotClick
    /\ slotClick(r, hour)
    /\ UNCHANGED <<request, cancelRequest, server>>
    /\ UNCHANGED <<gridVars, apiResult>>

\* POST /bookings is answered: the authority records the booking when it
\* accepts, which it does not while the interval is taken
CreateAnswered(outcome) ==
    /\ request # NoRequest
    /\ CreateBookingSettled(outcome)
    /\ IF outcome.ok
       THEN /\ FreeBetween(server, request.resourceId,
                           ParseIso(request.startUtc), ParseIso(request.endUtc))
            /\ server' = [server EXCEPT
                   !.mine = Append(@, Accepted(request, NewIds[Len(@) + 1]))]
       ELSE server' = server
    /\ request' = NoRequest
    /\ GridShows(KeptLedger, KeptMap)
    /\ UNCHANGED <<dialogSlot, cancelRequest>>

\* "Yes, Cancel Booking" on the card of the i-th booking, which the page
\* lists as the authority holds it; canCancel = isActive && !isPast
CancelPress(i) ==
    /\ handleCancel
    /\ i \in 1..Len(server.mine)
    /\ bookingsData[PageSizeOf("my-bookings")] = Len(server.mine)
    /\ server.mine[i].status = "Active"
    /\ ~(ParseIso(server.mine[i].endUtc) < now)
    /\ cancelRequest' = server.mine[i].id
    /\ UNCHANGED <<dialogSlot, request, server>>
    /\ UNCHANGED <<gridVars, apiResult>>

\* the booking of the id, cancelled
Cancelled(list, id) ==
    [i \in 1..Len(list) |->
        IF list[i].id = id THEN [list[i] EXCEPT !.status = "Cancelled"] ELSE list[i]]

\* DELETE /bookings/{id} is answered
CancelAnswered(outcome) ==
    /\ cancelRequest # NoBooking
    /\ CancelBookingSettled(outcome)
    /\ server' = IF outcome.ok
                 THEN [server EXCEPT !.mine = Cancelled(@, cancelRequest)]
                 ELSE server
    /\ cancelRequest' = NoBooking
    /\ GridShows(KeptLedger, KeptMap)
    /\ UNCHANGED <<dialogSlot, request>>

\* someone else books a free slot of the selected day
OtherBooks(r, hour) ==
    /\ Free(server, r, dateStr, hour)
    /\ server' = [server EXCEPT
           !.others = @ \cup {Booking("other", r, "Active", dateStr, hour, hour + 1)}]
    /\ last' = [NoStep EXCEPT !.op = "otherBooks"]
    /\ UNCHANGED <<route, selectedType, dateStr, visible, availabilityCache,
                   bookingsData, resourcesData, fetching, es, sseConnected,
                   pollTimer, prevBookingsCountRef, dialog, cancelling>>
    /\ UNCHANGED <<dialogSlot, request, cancelRequest>>
    /\ UNCHANGED <<gridVars, apiResult>>
    /\ UNCHANGED authVars

\* the cells the user clicks and the ones another user books
Targets == {<<"r1", 10>>, <<"r2", 11>>}
Contended == {<<"r1", 10>>}

\* the authority accepts, or answers that the slot is taken
Conflict ==
    [ok |-> FALSE,
     error |-> handleResponse([status |-> 409, body |-> "problem", statusText |-> ""]).error]

\* the user books and cancels on today's date in the zone UTC while the
\* fetches end, the interval fires, the clock advances and another user
\* books; the user acts on a settled page
InitBooking == AuthStart /\ GridStart(UTC) /\ DashStart

NextBooking ==
    \/ Settled /\ Tick
    \/ Settled /\ cancelling = 0 /\ \E r \in Routes : NavigateShown(r)
    \/ \E t \in Types : ResourcesLoaded(t, Cardinality(Resources))
    \/ \E ps \in PageSizes : LedgerFetched(ps)
    \/ \E t \in Types, d \in Days : AvailabilityAnswered(t, d)
    \/ Settled /\ \E c \in Targets : BookSlotClick(c[1], c[2])
    \/ Settled /\ handleOpenChange /\ OtherUnchanged
    \/ Settled /\ Len(server.mine) < MaxBookings
               /\ SubmitBooking /\ UNCHANGED <<gridVars, apiResult>>
    \/ \E o \in {Success, Conflict} : CreateAnswered(o)
    \/ Settled /\ cancelling = 0 /\ \E i \in 1..MaxBookings : CancelPress(i)
    \/ \E o \in {Success, Conflict} : CancelAnswered(o)
    \/ Settled /\ \E c \in Contended : OtherBooks(c[1], c[2])
    \/ Settled /\ PollTick

SpecBooking == InitBooking /\ [][NextBooking]_vars

-----------------------------------------------------------------------------
(***************************************************************************)
(* Properties of the session store and the request client (SpecAuth).      *)
(***************************************************************************)
\* the errors handleResponse can throw for a response of the given status
ErrorsOfStatus(status) ==
    {[title |-> "Problem", status |-> status, detail |-> "Detail"],
     [message |-> "Other"],
     [title |-> "Error", status |-> status, detail |-> "Reason"],
     [title |-> "Error", status |-> status, detail |-> "An unexpected error occurred"]}

FailedRenewals == {"missing", "notok", "throws"}

SessionCleared ==
    /\ accessToken = NoToken
    /\ refreshToken = NoToken
    /\ \A k \in LSKeys : localStorage[k] = NoToken

\* C1: a send never issues more than one POST /auth/refresh nor sends its
\* request more than twice; a send whose first response was 401 while a
\* refresh token was stored and whose renewal succeeded has issued exactly one
\* renewal call and re-sent the request exactly once, with the access token
\* the renewal stored as bearer; and when that retry is answered 401 too, the
\* send ends there, with the error of that response and nothing more sent.
C1_RenewOnceRetryOnce ==
    \A r \in Reqs :
        LET q == req[r]
        IN  /\ q.refreshCalls <= 1
            /\ Len(q.bearers) <= 2
            /\ Len(q.statuses) <= Len(q.bearers)
            /\ q.renewal = "ok" =>
                  /\ q.statuses[1] = 401
                  /\ q.hadStored
                  /\ q.refreshCalls = 1
                  /\ Len(q.bearers) = 2
                  /\ q.renewed # NoToken
                  /\ q.renewed # q.bearers[1]
                  /\ q.bearers[2] = q.renewed
                  /\ q.pc \in {"resent", "done"}
            /\ Len(q.bearers) = 2 => q.renewal = "ok"
            /\ (Len(q.statuses) = 2 /\ q.statuses[2] = 401) =>
                  /\ q.pc = "done"
                  /\ q.refreshCalls = 1
                  /\ Len(q.bearers) = 2
                  /\ q.result.kind = "error"
                  /\ q.result.error \in ErrorsOfStatus(401)

\* C1 witness: a send that was renewed, retried, and answered 401 again
C1_Witness ==
    \E r \in Reqs :
        /\ req[r].pc = "done"
        /\ req[r].statuses = <<401, 401>>
        /\ req[r].renewal = "ok"
        /\ req[r].bearers[2] = req[r].renewed

\* C2: a send answered 401 while no refresh token was stored, in memory or in
\* localStorage, has made no renewal call, has not re-sent its request, and
\* has failed with the SessionExpired error (title "Session Expired", status
\* 401).
C2_NoRefreshTokenNoRenewal ==
    \A r \in Reqs :
        LET q == req[r]
        IN  (Len(q.statuses) >= 1 /\ q.statuses[1] = 401 /\ ~q.hadStored) =>
                /\ q.pc = "done"
                /\ q.refreshCalls = 0
                /\ Len(q.bearers) = 1
                /\ Len(q.statuses) = 1
                /\ q.result.kind = "error"
                /\ q.result.error.title = "Session Expired"
                /\ q.result.error.status = 401

\* C2 witness: a send that carried a bearer, was answered 401 and found no
\* refresh token
C2_Witness ==
    \E r \in Reqs :
        /\ req[r].pc = "done"
        /\ req[r].statuses = <<401>>
        /\ ~req[r].hadStored
        /\ req[r].bearers[1] # NoToken

\* C3: in every step in which the renewal of a send fails (no refresh token,
\* a non-OK renewal response, or a throw), the send ends in that step, the
\* state it leaves has both tokens null and the entries accessToken,
\* refreshToken and user removed, and its error is SessionExpired, not the
\* payload of the 401.
C3_RenewalFailureClearsSession ==
    [][\A r \in Reqs :
          (req[r].renewal \notin FailedRenewals /\ req'[r].renewal \in FailedRenewals) =>
              /\ accessToken' = NoToken
              /\ refreshToken' = NoToken
              /\ \A k \in LSKeys : localStorage'[k] = NoToken
              /\ req'[r].pc = "done"
              /\ req'[r].result = [kind |-> "error", error |-> SessionExpired]]_vars

\* C3 witness: a renewal answered non-OK has ended its send, and nothing has
\* written the session since
C3_Witness ==
    \E r \in Reqs :
        /\ req[r].renewal = "notok"
        /\ req[r].pc = "done"
        /\ lastOp = "renewFail"
        /\ SessionCleared

\* the tokens in memory are the tokens in localStorage
InSync ==
    /\ accessToken = localStorage["accessToken"]
    /\ refreshToken = localStorage["refreshToken"]

\* C4: after a login, a successful renewal, a failed renewal or a logout, the
\* tokens in memory equal the accessToken and refreshToken entries of
\* localStorage (both present with the same value, or both absent), also when
\* a localStorage write failed part-way.
C4_StoresNeverDivergent ==
    lastOp \in {"login", "renewOk", "renewFail", "logout"} => InSync

-----------------------------------------------------------------------------
(***************************************************************************)
(* Properties of the slot status resolver (SpecGrid).  They are stated on  *)
(* the last render: view.grid holds what getSlotStatus returned for every  *)
(* resource and hour at the clock reading view.now, from the selected      *)
(* date, the ledger and the availability entry of the state.               *)
(***************************************************************************)
Cells == Resources \X HOURS

\* the slot of hour h of the selected date: its digits read as a UTC date
SlotStartOf(h) == HoursPerDay * LocalDay(zone, selectedDate) + h
SlotEndOf(h) == HoursPerDay * LocalDay(zone, selectedDate) + h + 1

\* the slot had ended when the grid was rendered
SlotOver(h) == SlotEndOf(h) <= view.now

\* two half-open intervals of hours share an hour
Intersects(a1, a2, c1, c2) == \E t \in a1..(a2 - 1) : c1 <= t /\ t < c2

\* the bookings of the ledger that are Active, of resource r, and share an
\* hour with the slot of hour h
OwnOver(r, h) ==
    {i \in 1..Len(userBookings) :
        /\ userBookings[i].status = "Active"
        /\ userBookings[i].resourceId = r
        /\ Intersects(SlotStartOf(h), SlotEndOf(h),
                      HoursPerDay * userBookings[i].startUtc.day
                          + userBookings[i].startUtc.hour,
                      HoursPerDay * userBookings[i].endUtc.day
                          + userBookings[i].endUtc.hour)}

\* resource r is in the set of hour h of the availability map
InMap(r, h) ==
    /\ availabilityData.defined
    /\ h \in DOMAIN availabilityData.map
    /\ r \in availabilityData.map[h]

\* C5: a slot is rendered `past` exactly when its end (the selected date at
\* hour + 1, UTC) is at or before the clock reading of the render, whatever
\* isBookable, the ledger and the availability map are.
C5_PastWins ==
    \A c \in Cells : (view.grid[c].status = "past") <=> SlotOver(c[2])

\* C5 witness: a slot rendered `past` on a bookable date although an Active
\* own booking covers it and the availability map lists it
C5_Witness ==
    \E c \in Cells :
        /\ view.grid[c].status = "past"
        /\ view.bookable
        /\ OwnOver(c[1], c[2]) # {}
        /\ InMap(c[1], c[2])

\* C6: a slot that is not past, on a bookable date, is rendered `yours`
\* exactly when the ledger holds an Active booking of that resource sharing an
\* hour with it, also when the availability map lists the slot, and then with
\* the id of such a booking (the first in the ledger); cancelled bookings and
\* bookings of other resources never give `yours`.
C6_OwnershipPrecedence ==
    \A c \in Cells :
        /\ (~SlotOver(c[2]) /\ view.bookable /\ OwnOver(c[1], c[2]) # {}) =>
              /\ view.grid[c].status = "yours"
              /\ \E i \in OwnOver(c[1], c[2]) :
                    /\ view.grid[c].bookingId = userBookings[i].id
                    /\ \A j \in OwnOver(c[1], c[2]) : i <= j
        /\ view.grid[c].status = "yours" => OwnOver(c[1], c[2]) # {}
        /\ view.grid[c].status # "yours" => view.grid[c].bookingId = "none"

\* C6 witness: a slot the availability map lists is rendered `yours`, while
\* the ledger also holds a cancelled booking over it
C6_Witness ==
    \E c \in Cells :
        /\ view.grid[c].status = "yours"
        /\ InMap(c[1], c[2])
        /\ \E i \in 1..Len(userBookings) : userBookings[i].status = "Cancelled"

\* C7: a slot that is not past, on a date that is not bookable, is rendered
\* `disabled`, whatever the availability map and the ledger hold.
C7_DisabledOutsideHorizon ==
    \A c \in Cells :
        /\ (~SlotOver(c[2]) /\ ~view.bookable) => view.grid[c].status = "disabled"
        /\ view.grid[c].status = "disabled" => ~view.bookable

\* C7 witness: on a date that is not bookable, a future slot that an Active
\* own booking covers and the availability map lists is rendered `disabled`
C7_Witness ==
    \E c \in Cells :
        /\ view.grid[c].status = "disabled"
        /\ OwnOver(c[1], c[2]) # {}
        /\ InMap(c[1], c[2])

\* C8: a slot that is not past, on a bookable date, that no Active own
\* booking of the resource covers, is rendered `available` when the resource
\* is in the availability map's set of that hour and `unavailable` when it is
\* not (as when no availability has been fetched); every status rendered is
\* one of the five.
C8_AvailableIffInMap ==
    \A c \in Cells :
        /\ view.grid[c].status \in {"available", "yours", "unavailable", "past", "disabled"}
        /\ (~SlotOver(c[2]) /\ view.bookable /\ OwnOver(c[1], c[2]) = {}) =>
              /\ InMap(c[1], c[2]) => view.grid[c].status = "available"
              /\ ~InMap(c[1], c[2]) => view.grid[c].status = "unavailable"
        /\ view.grid[c].status = "available" => InMap(c[1], c[2])

\* C8 witness: with a fetched map, the same resource is rendered `available`
\* at an hour whose set holds it and `unavailable` at an hour whose set does not
C8_Witness ==
    /\ availabilityData.defined
    /\ \E r \in Resources, h1, h2 \in HOURS :
          /\ view.grid[<<r, h1>>].status = "available"
          /\ view.grid[<<r, h2>>].status = "unavailable"
          /\ \E r2 \in Resources : InMap(r2, h2)

\* the hours over which the overlap test is compared with the intersection
TestHours == 0..5

\* C9: the overlap test of the resolver agrees with the two half-open
\* intervals sharing an hour, for every one-hour slot and every booking
\* interval of TestHours; and with only the booking [10:00, 11:00) of r1 on
\* day 2 in the ledger, on that date, bookable and rendered before 10:00, r1
\* is `yours` at 10 and not at 9 or 11.
C9_OverlapIsHalfOpen ==
    /\ \A h, s, e \in TestHours :
          overlaps(h, h + 1, s, e) <=> Intersects(h, h + 1, s, e)
    /\ (/\ userBookings = <<b1>>
        /\ LocalDay(zone, selectedDate) = 2
        /\ view.bookable
        /\ ~SlotOver(9)) =>
            /\ view.grid[<<"r1", 10>>].status = "yours"
            /\ view.grid[<<"r1", 9>>].status \in {"available", "unavailable"}
            /\ view.grid[<<"r1", 11>>].status \in {"available", "unavailable"}

\* C9 witness: that ledger, date and render
C9_Witness ==
    /\ userBookings = <<b1>>
    /\ LocalDay(zone, selectedDate) = 2
    /\ view.bookable
    /\ ~SlotOver(9)
    /\ view.grid[<<"r1", 10>>].status = "yours"
    /\ view.grid[<<"r1", 11>>].status = "available"

\* C10: the date is rendered bookable exactly when the local calendar day of
\* the selected date is 0 to 3 days after the local calendar day of the clock
\* reading, in every zone, days of 23 and of 25 hours included.
C10_HorizonInCalendarDays ==
    view.bookable <=>
        (LocalDay(zone, selectedDate) - LocalDay(zone, view.now)) \in 0..HorizonDays

-----------------------------------------------------------------------------
(***************************************************************************)
(* Properties of the availability fetcher (SpecFetch).                     *)
(***************************************************************************)
\* the hour a boundary text states: the HH of "HH:MM", the hour written in a
\* full timestamp, 00 for a date without a time, none for any other text
HourComponent(t) ==
    CASE t = Hhmm0900 -> 9
      [] t = Hhmm1000 -> 10
      [] t = Hhmm1130 -> 11
      [] t = Hhmm0000 -> 0
      [] t = IsoZ1000 -> 10
      [] t = IsoOffset1200 -> 12
      [] t = IsoDateOnly -> 0
      [] OTHER -> NaN

\* the slot is reported `available`, both its boundaries state an hour, and
\* hour h is from its start hour up to, not including, its end hour
Contributes(ts, h) ==
    /\ ts.status = "available"
    /\ HourComponent(ts.startTime) # NaN
    /\ HourComponent(ts.endTime) # NaN
    /\ HourComponent(ts.startTime) <= h
    /\ h < HourComponent(ts.endTime)

\* C11: in the map the fetcher made of the last response, resource id r is in
\* the set of hour h exactly when the response lists a resource with id r
\* that has a slot with status `available` whose start hour is <= h and whose
\* end hour is > h, the hours being the hour components of the "HH:MM" or
\* timestamp boundaries; slots of another status or with an unreadable
\* boundary add nothing, and no hour has an empty set.
C11_ReductionIsExact ==
    LET resources == OrEmpty(apiResult.resources)
        map == availabilityMap(availabilityData)
    IN  /\ \A id \in Resources, h \in 0..(HoursPerDay - 1) :
              InMap(id, h) <=>
                  \E i \in 1..Len(resources) :
                      /\ resources[i].id = id
                      /\ \E j \in 1..Len(OrEmpty(resources[i].timeSlots)) :
                            Contributes(OrEmpty(resources[i].timeSlots)[j], h)
        /\ \A h \in DOMAIN map :
              h \in 0..(HoursPerDay - 1) /\ map[h] # {} /\ map[h] \subseteq Resources

\* C11 witness: a response whose first slot, in timestamp encoding, is
\* available from 10 to 12 and whose second slot has an unreadable start, has
\* been reduced to r1 at the hours 10 and 11 only
C11_Witness ==
    /\ apiResult = ApiResult(Listed(<<ResourceAvailability("r1",
           Listed(<<TimeSlot("available", IsoZ1000, IsoOffset1200),
                    TimeSlot("available", NotATime, Hhmm1130)>>))>>))
    /\ availabilityData = [defined |-> TRUE, map |-> (10 :> {"r1"}) @@ (11 :> {"r1"})]

-----------------------------------------------------------------------------
(***************************************************************************)
(* Properties of the booking and cancel flows (SpecFlow).  `last` is the   *)
(* record of the step that led to the state.                               *)
(***************************************************************************)
\* the keys the last step marked for revalidation: those its filter mutate
\* matched, and those a bound mutate was called for
Invalidated ==
    last.cleared \cup {last.revalidated[i].key : i \in 1..Len(last.revalidated)}

\* C12: after a successful createBooking every user-bookings entry, every
\* availability entry of the booked resource's type that holds data, for
\* whichever date, has been invalidated, and the refresh signal has been set.
C12_CreateInvalidatesAllDates ==
    last.op = "createBooking" =>
        /\ \A ps \in PageSizes : BookingsKey(ps) \in Invalidated
        /\ \A d \in Days :
              availabilityCache[<<dialog.type, d>>] =>
                  AvailKey(dialog.type, d) \in Invalidated
        /\ last.signal

\* C13: after a successful cancelBooking every user-bookings entry and every
\* availability entry that holds data, of whichever type and date, has been
\* invalidated, on whichever page the card is.
C13_CancelInvalidatesAllAvailability ==
    last.op = "cancelBooking" =>
        /\ \A ps \in PageSizes : BookingsKey(ps) \in Invalidated
        /\ \A t \in Types, d \in Days :
              availabilityCache[<<t, d>>] => AvailKey(t, d) \in Invalidated

\* the text the flows are to show for a caught error: of a structured error
\* (title, status and detail) the detail, the title when the detail is
\* empty; of anything else the generic text
ExpectedText(error, generic) ==
    IF {"title", "status", "detail"} \subseteq DOMAIN error
    THEN IF error.detail # "" THEN error.detail ELSE error.title
    ELSE generic

\* C14: a step in which createBooking or cancelBooking rejected, with
\* whichever error, leaves every user-bookings, availability and resources
\* entry and the fetches in flight as they were, invalidates and revalidates
\* nothing and sets no refresh signal; it shows the detail of the error, else
\* its title, else the generic text of the flow; and the booking dialog is
\* open after it when it was open before, showing that text.
C14_FailureLeavesCaches ==
    [][last'.op \in {"createBookingFailed", "cancelBookingFailed"} =>
          /\ availabilityCache' = availabilityCache
          /\ bookingsData' = bookingsData
          /\ resourcesData' = resourcesData
          /\ fetching' = fetching
          /\ last'.cleared = {} /\ last'.revalidated = <<>> /\ ~last'.signal
          /\ last'.op = "createBookingFailed" =>
                /\ last'.message.text = ExpectedText(last'.message.error, CreateFailed)
                /\ dialog'.open = dialog.open
                /\ dialog'.error = last'.message.text
          /\ last'.op = "cancelBookingFailed" =>
                /\ last'.message.text = ExpectedText(last'.message.error, CancelFailed)
                /\ dialog' = dialog
    ]_vars

\* C14 witness: createBooking was rejected with a conflict whose detail is
\* empty while the cache holds an availability entry of the type; the dialog
\* is open and shows the title
C14_Witness ==
    /\ last.op = "createBookingFailed"
    /\ last.message.error = [title |-> "Problem", status |-> 409, detail |-> ""]
    /\ dialog.open /\ dialog.error = "Problem"
    /\ \E d \in Days : availabilityCache[<<dialog.type, d>>]

-----------------------------------------------------------------------------
(***************************************************************************)
(* Properties of the sync channel (SpecSync).                              *)
(***************************************************************************)
\* C15: a notification that arrives on the open stream starts exactly one
\* revalidation, and it is of the availability entry of the type and date
\* selected at that moment, also when they are not those selected when the
\* stream was created.
C15_NotificationRevalidatesCurrentKey ==
    last.op = "onmessage" =>
        /\ last.revalidated =
               <<[key |-> AvailKey(selectedType, dateStr), by |-> "message"]>>
        /\ AvailKey(selectedType, dateStr) \in fetching

\* C15 witness: a notification has arrived on a stream that was created
\* under another type or date than the selected ones
C15_Witness ==
    /\ last.op = "onmessage"
    /\ es.state = "open"
    /\ es.since # AvailKey(selectedType, dateStr)

\* the channel is in scope: the dashboard is mounted, the selected date is
\* bookable and the selected type lists a resource
InScope(r, type, day, rd) == r = "dashboard" /\ Bookable(day) /\ Length(rd, type) > 0

\* between the two states of a step the page was left or entered, the type
\* or the date was changed, or the channel entered or left its scope
ScopeChanged ==
    \/ route' # route
    \/ selectedType' # selectedType
    \/ dateStr' # dateStr
    \/ InScope(route', selectedType', dateStr', resourcesData')
           # InScope(route, selectedType, dateStr, resourcesData)

\* C16: an error on the stream, connecting or open, closes it and leaves the
\* channel polling, not connected; and a stream that was closed by an error
\* is followed by a new one only in a step that changes the scope.
C16_NoReopenWithinScope ==
    [][/\ last'.op = "onerror" =>
              es'.state = "closed" /\ ~sseConnected' /\ pollTimer'
       /\ es.state = "closed" /\ Live(es') => ScopeChanged
    ]_vars

C17_WitnessVisible ==
    /\ last.op = "interval"
    /\ visible
    /\ es.state = "closed"

\* C18: a step in which the polling effect set its interval has started a
\* revalidation of the selected availability entry at once, whether the
\* document was visible or hidden.
C18_ImmediateRevalidation ==
    last.ticked =>
        \E i \in 1..Len(last.revalidated) :
            last.revalidated[i].key = AvailKey(selectedType, dateStr)

\* C19: a step in which the channel enters or leaves its scope, the selected
\* type or date changes, or the page is left, closes the stream that was
\* connecting or open before it and clears the interval that was set before it.
C19_TearDownOnEveryChange ==
    [][ScopeChanged =>
          /\ Live(es) => last'.closedStream
          /\ pollTimer => last'.clearedTimer
    ]_vars

-----------------------------------------------------------------------------
(***************************************************************************)
(* Property of the ledger-count trigger (SpecFlow).                        *)
(***************************************************************************)
\* the number of bookings the dashboard's ledger entry lists; Null while the
\* entry holds no data
ObservedCount(bd) == bd[PageSizeOf("dashboard")]

\* the revalidations the count effect started in the last step
CountFirings(step) ==
    Cardinality({i \in 1..Len(step.revalidated) : step.revalidated[i].by = "count"})

\* C20: while the dashboard stays mounted, the count effect starts one
\* revalidation in a step in which the ledger entry comes to list a number
\* of bookings that differs from the number it listed before, and none in
\* any other step: none when the number is the same, none when no number is
\* listed, none for the first number it sees.
C20_FiresOnCountChangeOnly ==
    [][route = "dashboard" /\ route' = "dashboard" =>
          /\ CountFirings(last') <= 1
          /\ CountFirings(last') = 1 =>
                /\ ObservedCount(bookingsData') # Null
                /\ ObservedCount(bookingsData') # ObservedCount(bookingsData)
          /\ (/\ ObservedCount(bookingsData) # Null
              /\ ObservedCount(bookingsData') # Null
              /\ ObservedCount(bookingsData') # ObservedCount(bookingsData))
                => CountFirings(last') = 1
    ]_vars

-----------------------------------------------------------------------------
(***************************************************************************)
(* Further properties of the flows (SpecFlow).                             *)
(***************************************************************************)
\* C22: a step in which createBooking was rejected with a conflict (status
\* 409) has started a revalidation of the availability entry the dashboard
\* displays.
C22_ConflictRevalidates ==
    (/\ last.op = "createBookingFailed"
     /\ "status" \in DOMAIN last.message.error
     /\ last.message.error.status = 409)
        => AvailKey(selectedType, dateStr) \in Invalidated

\* C23: at most one cancelBooking call of a booking card is in flight at any
\* moment (the card's trigger is disabled while its flow is running).
C23_OneCancelInFlight == cancelling <= 1

-----------------------------------------------------------------------------
(***************************************************************************)
(* Further properties of the request client (SpecAuth).                    *)
(***************************************************************************)
\* C24: the error with which an authFetch call failed has the three fields
\* title, status and detail, whatever body the server returned.
C24_ErrorsAreNormalized ==
    \A r \in Reqs :
        req[r].result.kind = "error" => isApiError(req[r].result.error)

\* C25: the request client never navigates; the page is where the caller
\* left it, also after a renewal that failed.
C25_ClientDoesNotRedirect == ~redirected

\* the tokens are absent from the module variables and from localStorage
TokensAbsent ==
    /\ accessToken = NoToken
    /\ refreshToken = NoToken
    /\ localStorage["accessToken"] = NoToken
    /\ localStorage["refreshToken"] = NoToken

\* C26: two calls never have a renewal in flight with the same refresh token,
\* and the failure of a renewal issued with an older refresh token leaves the
\* session that another call's renewal installed.
C26_SingleRenewal ==
    [][/\ \A r, q \in Reqs :
              (r # q /\ req'[r].pc = "refreshing" /\ req'[q].pc = "refreshing")
                  => req'[r].rt # req'[q].rt
       /\ \A r, q \in Reqs :
              (/\ r # q
               /\ req[q].renewal = "ok"
               /\ req[q].renewed = accessToken
               /\ req[r].pc = "refreshing"
               /\ req[r].rt # refreshToken
               /\ req'[r].renewal \in {"notok", "throws"})
                  => Session' = Session]_vars

\* C27: after logout the tokens stay absent until the next login, whichever
\* call ends in between; and when a renewal issued before a login fails after
\* it, the session of that login stays.
C27_NoWriteAcrossLogout ==
    [][/\ (lastOp = "logout" /\ lastOp' # "login") => TokensAbsent'
       /\ \A r \in Reqs :
              (/\ lastOp = "login"
               /\ req[r].pc = "refreshing"
               /\ req[r].rt < issued
               /\ req'[r].renewal \in {"notok", "throws"})
                  => Session' = Session]_vars

-----------------------------------------------------------------------------
(***************************************************************************)
(* Further properties of the synchronisation (SpecSync).                   *)
(***************************************************************************)
\* C28: the interval of the polling effect runs in no state in which the
\* EventSource of the dashboard is connecting or open.
C28_PollingOnlyWithoutStream ==
    pollTimer => es.state \notin {"connecting", "open"}

-----------------------------------------------------------------------------
(***************************************************************************)
(* Properties of a booking from the grid and back (SpecRound).             *)
(***************************************************************************)
\* the status the resolver reports for (r, hour) of the selected date when
\* the ledger holds the booking made of the submitted body
StatusWithRequest(r, hour) ==
    getSlotStatus(zone, now, r, hour, selectedDate, <<Accepted(request, "new")>>,
                  availableSet(availabilityMap(availabilityData)),
                  isBookableDate(zone, now, selectedDate)).status

\* the submitted interval is the hour of the dialog's slot on the selected
\* date, read as UTC, and it is one hour long
SubmittedIsSlot ==
    LET d == LocalDay(zone, selectedDate)
    IN  /\ request.resourceId = dialogSlot.resource
        /\ ParseIso(request.startUtc) = DateUTC(d, dialogSlot.hour)
        /\ ParseIso(request.endUtc) = ParseIso(request.startUtc) + 1

\* C29 as stated: the submitted interval is [date h:00Z, date h+1:00Z) and
\* an Active booking with it makes the resolver report `yours` for the slot
\* of the dialog, and for no other hour and no other resource.
C29_YoursExactlyThere ==
    request # NoRequest =>
        /\ SubmittedIsSlot
        /\ \A c \in Resources \X HOURS :
              StatusWithRequest(c[1], c[2]) = "yours"
                  <=> c = <<dialogSlot.resource, dialogSlot.hour>>

\* C29: the submitted interval is [date h:00Z, date h+1:00Z), and an Active
\* booking with it makes the resolver report `yours` for the slot of the
\* dialog as long as that slot is not past and the date is bookable, and for
\* no other hour and no other resource in any case.
C29_RoundTrip ==
    request # NoRequest =>
        /\ SubmittedIsSlot
        /\ \A c \in Resources \X HOURS :
              StatusWithRequest(c[1], c[2]) = "yours"
                  <=> /\ c = <<dialogSlot.resource, dialogSlot.hour>>
                      /\ ~isPast(DateUTC(LocalDay(zone, selectedDate), c[2] + 1), now)
                      /\ isBookableDate(zone, now, selectedDate)

\* a body was submitted in a zone that is not UTC, on a day after the one
\* the dashboard started on, and its slot would show as the user's own
C29_Witness ==
    /\ request # NoRequest
    /\ zone.base # 0
    /\ LocalDay(zone, selectedDate) > LocalDay(zone, StartNow)
    /\ StatusWithRequest(dialogSlot.resource, dialogSlot.hour) = "yours"

-----------------------------------------------------------------------------
(***************************************************************************)
(* Properties of booking and cancelling end to end (SpecRound,             *)
(* SpecBooking).                                                           *)
(***************************************************************************)
\* the status the resolver reports for the slot of the dialog from what the
\* page holds, at the clock reading of the state
ResolvedNow ==
    getSlotStatus(zone, now, dialogSlot.resource, dialogSlot.hour, selectedDate,
                  userBookings, availableSet(availabilityMap(availabilityData)),
                  isBookableDate(zone, now, selectedDate)).status

\* C30: the dialog opens only for a slot the grid shows as available, and
\* in the step that submits createBooking the slot of the dialog is resolved
\* as available from the ledger, the availability map and the clock of that
\* moment.
C30_SubmitsOnlyAvailable ==
    [][/\ (~dialog.open /\ dialog'.open)
              => view.grid[<<dialogSlot'.resource, dialogSlot'.hour>>].status = "available"
       /\ (request = NoRequest /\ request' # NoRequest) => ResolvedNow' = "available"]_vars

\* the dashboard is shown, no fetch of its ledger or of its availability
\* entry is in flight, and no call of the user is
AtRest ==
    /\ route = "dashboard"
    /\ fetching \cap {BookingsKey(PageSizeOf("dashboard")),
                      AvailKey(selectedType, dateStr)} = {}
    /\ request = NoRequest
    /\ cancelRequest = NoBooking

SlotOf(b) == <<b.resourceId, b.startUtc.hour>>

Shown(b) == view.grid[SlotOf(b)].status

C21_Witness ==
    /\ AtRest
    /\ \E i \in 1..Len(server.mine) :
          server.mine[i].status = "Active" /\ Shown(server.mine[i]) = "yours"

====
